---- MODULE Spec2Model ----
(***************************************************************************)
(* TuneFlip: the batch conversion pipeline of src/src/lib/convert.ts       *)
(* (convertPaths) over the backend adapter of src/src/lib/shortpath.ts     *)
(* (createConverter).  One run of convertPaths is modelled: the limiter,   *)
(* every await point of a task body, the event callbacks, the file system  *)
(* entries a run touches and the promise convertPaths returns.             *)
(***************************************************************************)
EXTENDS Integers, Sequences, FiniteSets, TLC

\* ------------------------------------------------------------------ bounds
MaxTasks == 2        \* candidates of a run
MaxProgress == 2     \* progress reports the backend makes per task
MaxRuns == 2         \* start-convert runs of one session
Cpus == 4            \* os.cpus().length of the modelled host

\* ------------------------------------------------------- program constants
MaxConcurrency == 64
LowCap == 1
MediumCap == 2
ClampLo == 1
ClampHi == 99

\* Percentages the backend reports (fluent-ffmpeg's percent is not clamped).
Percents == {0, 50, 100}

Min(a, b) == IF a < b THEN a ELSE b
Max(a, b) == IF a > b THEN a ELSE b

\* ---------------------------------------------------------------- options
\* "none" stands for an option that is not given (undefined).
Formats == {"none", "mp3", "aac", "flac", "ogg", "opus"}

\* A JavaScript number or undefined, as far as parseTrim tells them apart.
Undef == [k |-> "undef", v |-> 0]
NaN == [k |-> "nan", v |-> 0]
Num(n) == [k |-> "num", v |-> n]

\* A value that may be undefined: def says whether it is defined, s is the string.
Undefined == [def |-> FALSE, s |-> ""]
Str(s) == [def |-> TRUE, s |-> s]

\* convert.ts:272: the fields of the metadata (the cover path is the option userCover).
MetaKeys == {"title", "artist", "album", "genre", "date", "track", "comment"}
NoMetadata == [k \in MetaKeys |-> Undefined]

BaseOpts ==
  [ hasConcurrency |-> FALSE,
    concurrency    |-> 0,
    throttle       |-> "off",
    throttleDelayMs |-> 0,
    overwrite      |-> FALSE,
    dryRun         |-> FALSE,
    loudnorm       |-> FALSE,
    hasRetry       |-> FALSE,
    retryAttempts  |-> 0,
    retryDelayMs   |-> 0,
    userCover      |-> FALSE,
    keepStructure  |-> FALSE,
    format         |-> "none",
    trim           |-> << >>,
    callbacks      |-> TRUE,
    controller     |-> FALSE,
    isPaused       |-> TRUE,
    autoMeta       |-> TRUE,
    preferDetected |-> FALSE,
    metadata       |-> NoMetadata,
    coverFrameSec  |-> Undef,
    autoCoverTimeSec |-> Undef,
    autoCoverEnabled |-> TRUE,
    coverFrameRules |-> << >>,
    template       |-> << >>,
    bitrateKbps    |-> Undef,
    vbrLevel       |-> Undef ]

\* ----------------------------------------------------------- concurrency
\* convert.ts:122-125
BaseConc(o) ==
  Max(1, Min(MaxConcurrency,
             IF o.hasConcurrency THEN o.concurrency ELSE Max(1, Cpus \div 2)))

ConcurrencyNoThrottle(o) == BaseConc(o)

Concurrency(o) ==
  IF o.throttle = "low" THEN Min(BaseConc(o), LowCap)
  ELSE IF o.throttle = "medium" THEN Min(BaseConc(o), MediumCap)
  ELSE BaseConc(o)

\* ------------------------------------------------------------- parseTrim
\* A trim string is a sequence of characters over TrimChars.
TrimChars == {"5", "6", "x", "-"}
Digit(c) == IF c = "5" THEN 5 ELSE 6

\* String.prototype.split('-'): the pieces between the dashes.
RECURSIVE SplitDash(_)
SplitDash(s) ==
  IF \A k \in 1..Len(s) : s[k] # "-" THEN << s >>
  ELSE LET k == CHOOSE k \in 1..Len(s) : s[k] = "-" /\ \A j \in 1..(k-1) : s[j] # "-"
       IN  << SubSeq(s, 1, k-1) >> \o SplitDash(SubSeq(s, k+1, Len(s)))

\* Number(s) of a non-empty string over the digits and "x".
RECURSIVE DigitsValue(_)
DigitsValue(s) ==
  IF Len(s) = 0 THEN 0
  ELSE 10 * DigitsValue(SubSeq(s, 1, Len(s)-1)) + Digit(s[Len(s)])

NumberOf(s) ==
  IF \E k \in 1..Len(s) : s[k] \notin {"5", "6"} THEN NaN ELSE Num(DigitsValue(s))

\* convert.ts:67-69: the start and end parseTrim computes from a non-empty string.
TrimParts(trim) ==
  LET parts == SplitDash(trim)
      s == parts[1]
      hasE == Len(parts) >= 2 /\ parts[2] # << >>
  IN  [start |-> IF s # << >> THEN NumberOf(s) ELSE Undef,
       hasE |-> hasE,
       end |-> IF hasE THEN NumberOf(parts[2]) ELSE Undef]

\* convert.ts:65-72: whether parseTrim throws.
TrimThrows(trim) ==
  IF trim = << >> THEN FALSE
  ELSE LET p == TrimParts(trim)
       IN  p.start = NaN \/ (p.hasE /\ p.end = NaN)

\* convert.ts:65-74: the range parseTrim returns when it does not throw.
ParseTrim(trim) ==
  IF trim = << >> THEN [start |-> Undef, end |-> Undef]
  ELSE [start |-> TrimParts(trim).start, end |-> TrimParts(trim).end]

\* ------------------------------------------------------------ metadata merge
\* The truthiness of an optional string, and the operators || and ??.
Truthy(v) == v.def /\ v.s # ""
Or(a, b) == IF Truthy(a) THEN a ELSE b
Coalesce(a, b) == IF a.def THEN a ELSE b

\* convert.ts:261-268: the keys of the probed tags the merge reads (probeTags
\* lower-cases every key, shortpath.ts:89).
TagKeys == MetaKeys \cup {"itl", "tracktitle", "album_artist", "author", "year", "description"}
NoTags == [k \in TagKeys |-> Undefined]

NoGuess == [artist |-> Undefined, title |-> Undefined]

\* A base name as detectFromFilename reads it is a sequence of tokens: " " (one
\* blank), "-" (a hyphen or an en dash), "_", "(" and ")" (a bracket of any of the
\* three kinds), "." (any other character that is no letter and no digit), or a
\* word, a run of letters and digits.  No two words are adjacent.
Marks == {" ", "-", "_", "(", ")", "."}
IsWord(t) == t \notin Marks

\* The words of the model that are not written in lower case.
LowerWord(w) ==
  IF w = "Official" THEN "official" ELSE IF w = "Video" THEN "video"
  ELSE IF w = "HD" THEN "hd" ELSE IF w = "By" THEN "by" ELSE w

\* convert.ts:80: the noise the second replace removes: single words, and pairs of
\* words with any blanks between them.
NoiseWords ==
  {"lyrics", "hd", "4k", "remaster", "remastered", "mv", "clip",
   "officialvideo", "officialaudio", "audioonly"}
NoisePairs == {<<"official", "video">>, <<"official", "audio">>, <<"audio", "only">>}

\* The string of a token sequence.
RECURSIVE Join(_)
Join(s) == IF s = << >> THEN "" ELSE Head(s) \o Join(Tail(s))

\* The first position from p on that holds no blank (Len(s) + 1 when there is none).
RECURSIVE SkipBlanks(_, _)
SkipBlanks(s, p) == IF p <= Len(s) /\ s[p] = " " THEN SkipBlanks(s, p + 1) ELSE p

\* The first position of the run of blanks that ends just before p.
RECURSIVE BlanksBefore(_, _)
BlanksBefore(s, p) == IF p > 1 /\ s[p - 1] = " " THEN BlanksBefore(s, p - 1) ELSE p

\* convert.ts:79: every bracketed part, up to the first closing bracket, becomes one
\* blank, together with the blanks around it.
RECURSIVE RemoveBrackets(_)
RemoveBrackets(s) ==
  LET opens == { n \in DOMAIN s : s[n] = "(" }
  IN  IF opens = {} THEN s
      ELSE LET o == CHOOSE n \in opens : \A m \in opens : n <= m
               closes == { n \in DOMAIN s : n > o /\ s[n] = ")" }
           IN  IF closes = {} THEN s
               ELSE LET c == CHOOSE n \in closes : \A m \in closes : n <= m
                    IN  SubSeq(s, 1, BlanksBefore(s, o) - 1) \o << " " >>
                        \o RemoveBrackets(SubSeq(s, SkipBlanks(s, c + 1), Len(s)))

\* A word boundary (\b) lies before position p and after position q: the neighbour
\* is no "_" (a word is never the neighbour of a word).
Bounded(s, p, q) == (p = 1 \/ s[p - 1] # "_") /\ (q = Len(s) \/ s[q + 1] # "_")

\* convert.ts:80: the noise that starts at p ends at this position (0 when no noise
\* starts at p).
NoiseEnd(s, p) ==
  LET q == SkipBlanks(s, p + 1)
  IN  IF ~IsWord(s[p]) THEN 0
      ELSE IF q <= Len(s) /\ IsWord(s[q]) /\ <<LowerWord(s[p]), LowerWord(s[q])>> \in NoisePairs
              /\ Bounded(s, p, q)
      THEN q
      ELSE IF LowerWord(s[p]) \in NoiseWords /\ Bounded(s, p, p) THEN p
      ELSE 0

RECURSIVE RemoveNoise(_, _)
RemoveNoise(s, p) ==
  IF p > Len(s) THEN << >>
  ELSE IF NoiseEnd(s, p) # 0 THEN RemoveNoise(s, NoiseEnd(s, p) + 1)
  ELSE << s[p] >> \o RemoveNoise(s, p + 1)

\* convert.ts:81: two or more blanks become one.
RECURSIVE Collapse(_)
Collapse(s) ==
  IF Len(s) <= 1 THEN s
  ELSE IF s[1] = " " /\ s[2] = " " THEN Collapse(Tail(s))
  ELSE << s[1] >> \o Collapse(Tail(s))

\* convert.ts:82
RECURSIVE Trim(_)
Trim(s) ==
  IF s = << >> THEN s
  ELSE IF s[1] = " " THEN Trim(Tail(s))
  ELSE IF s[Len(s)] = " " THEN Trim(SubSeq(s, 1, Len(s) - 1))
  ELSE s

\* convert.ts:78-82
Scrub(s) == Trim(Collapse(RemoveNoise(RemoveBrackets(s), 1)))

\* A match of a pattern: its two groups.  The second group is given with the blanks
\* that precede it, which scrub trims.
NoMatch == [ok |-> FALSE, m1 |-> << >>, m2 |-> << >>]
Match(m1, m2) == [ok |-> TRUE, m1 |-> m1, m2 |-> m2]

\* convert.ts:85, 99: /^(.+?)\s*X\s*(.+)$/ for the mark X: the first group is the
\* shortest prefix that blanks and X follow, with something after X.
Cut(s, mark) ==
  LET ks == { k \in 1..Len(s) :
                LET d == SkipBlanks(s, k + 1) IN d < Len(s) /\ s[d] = mark }
  IN  IF ks = {} THEN NoMatch
      ELSE LET k == CHOOSE n \in ks : \A m \in ks : n <= m
           IN  Match(SubSeq(s, 1, k), SubSeq(s, SkipBlanks(s, k + 1) + 1, Len(s)))

\* convert.ts:92: /^(.+?)\s+by\s+(.+)$/i
CutBy(s) ==
  LET ks == { k \in 1..Len(s) :
                LET d == SkipBlanks(s, k + 1)
                IN  /\ d > k + 1
                    /\ d + 2 <= Len(s)
                    /\ LowerWord(s[d]) = "by"
                    /\ s[d + 1] = " " }
  IN  IF ks = {} THEN NoMatch
      ELSE LET k == CHOOSE n \in ks : \A m \in ks : n <= m
           IN  Match(SubSeq(s, 1, k), SubSeq(s, SkipBlanks(s, k + 1) + 1, Len(s)))

\* convert.ts:106-107: split at the dashes gives two parts when there is one dash.
SplitDashOnce(s) ==
  LET ds == { n \in DOMAIN s : s[n] = "-" }
  IN  IF Cardinality(ds) # 1 THEN NoMatch
      ELSE LET d == CHOOSE n \in ds : TRUE
           IN  Match(SubSeq(s, 1, d - 1), SubSeq(s, d + 1, Len(s)))

\* The result of one pattern: both scrubbed groups, when both are non-empty.
Guess(artist, title) ==
  LET a == Scrub(artist)
      t == Scrub(title)
  IN  IF a # << >> /\ t # << >>
      THEN [artist |-> Str(Join(a)), title |-> Str(Join(t))]
      ELSE NoGuess

\* convert.ts:76-113 on a token sequence.
DetectFromTokens(s) ==
  LET dash == Cut(s, "-")
      by == CutBy(s)
      under == Cut(s, "_")
      parts == SplitDashOnce(s)
      Try(m, swap) ==
        IF ~m.ok THEN NoGuess ELSE IF swap THEN Guess(m.m2, m.m1) ELSE Guess(m.m1, m.m2)
      tries == << Try(dash, FALSE), Try(by, TRUE), Try(under, FALSE), Try(parts, FALSE) >>
      found == { n \in DOMAIN tries : tries[n] # NoGuess }
  IN  IF found = {} THEN NoGuess
      ELSE tries[CHOOSE n \in found : \A m \in found : n <= m]

\* The tokens of the base names of the scenarios.
Tokens(base) ==
  IF base = "x - y" THEN <<"x", " ", "-", " ", "y">>
  ELSE IF base = "a.b" THEN <<"a", ".", "b">>
  ELSE <<base>>

\* convert.ts:76-113
DetectFromFilename(base) == DetectFromTokens(Tokens(base))

\* convert.ts:220-226, guess being what detectFromFilename(base) returned.
FileNameTags(o, guess) ==
  IF o.autoMeta
  THEN [artist |-> IF Truthy(guess.artist) THEN guess.artist ELSE Undefined,
        title  |-> IF Truthy(guess.title) THEN guess.title ELSE Undefined]
  ELSE NoGuess

\* convert.ts:260-268
Detected(autoTags, fileNameTags) ==
  [ title   |-> Or(Or(Or(autoTags.title, autoTags.itl), autoTags.tracktitle), fileNameTags.title),
    artist  |-> Or(Or(Or(autoTags.artist, autoTags.album_artist), autoTags.author),
                   fileNameTags.artist),
    album   |-> autoTags.album,
    genre   |-> autoTags.genre,
    date    |-> Or(autoTags.date, autoTags.year),
    track   |-> autoTags.track,
    comment |-> Or(autoTags.comment, autoTags.description) ]

\* convert.ts:269-277 with preferDetected = (opts.preferDetected === true)
Merged(o, autoTags, fileNameTags) ==
  LET detected == Detected(autoTags, fileNameTags)
      manual == o.metadata
  IN  [ k \in MetaKeys |->
          IF o.preferDetected THEN Coalesce(detected[k], manual[k])
          ELSE Coalesce(manual[k], detected[k]) ]

\* ------------------------------------------------------- cover frame time
\* convert.ts:230: the timestamp when nothing is configured.
DefaultFrameSec == 5

\* A rule's pattern: valid says whether new RegExp accepts it, same holds the base
\* names it matches as spelled and folded those it matches with the flag 'i'.
Pat(text, valid, same, folded) ==
  [text |-> text, valid |-> valid, same |-> same, folded |-> folded]

\* convert.ts:230
DefaultTSec(o) ==
  IF o.coverFrameSec.k # "undef" THEN o.coverFrameSec.v
  ELSE IF o.autoCoverTimeSec.k # "undef" THEN o.autoCoverTimeSec.v
  ELSE DefaultFrameSec

RECURSIVE RuleTSec(_, _, _)
\* convert.ts:231-235: the loop over the rules; a pattern the RegExp constructor
\* rejects throws inside the try and the loop goes on.
RuleTSec(rules, base, tSec) ==
  IF rules = << >> THEN tSec
  ELSE IF Head(rules).pattern.valid /\ base \in Head(rules).pattern.folded
       THEN Head(rules).timeSec
  ELSE RuleTSec(Tail(rules), base, tSec)

TSecLastMatch(o, base) ==
  LET rules == o.coverFrameRules
      hits == { n \in DOMAIN rules : rules[n].pattern.valid /\ base \in rules[n].pattern.folded }
  IN  IF hits = {} THEN DefaultTSec(o)
      ELSE rules[CHOOSE n \in hits : \A m \in hits : m <= n].timeSec

\* convert.ts:230-235
TSec(o, base) == RuleTSec(o.coverFrameRules, base, DefaultTSec(o))

\* ----------------------------------------------------------- output name
\* A file name or a template is a sequence of atoms: "." or a non-empty text
\* without a dot.  A token such as "{basename}" is an atom.
Atoms(base) == IF base = "a.b" THEN <<"a", ".", "b">> ELSE <<base>>

\* convert.ts:171: extname(input) without its leading dot.
ExtWord(e) ==
  IF e.low = ".mp4" THEN (IF e.cased THEN <<"MP4">> ELSE <<"mp4">>)
  ELSE IF e.low = ".mp3" THEN (IF e.cased THEN <<"MP3">> ELSE <<"mp3">>)
  ELSE IF e.low = ".txt" THEN (IF e.cased THEN <<"TXT">> ELSE <<"txt">>)
  ELSE << >>

\* convert.ts:170
DefaultTemplate == <<"{basename}", ".", "mp3">>

\* String(n) of a number that is given, '' otherwise (convert.ts:172-173).
NumberString(v) == IF v.k = "num" THEN <<ToString(v.v)>> ELSE << >>

\* String.prototype.replace with a string pattern: the first occurrence only.
ReplaceFirst(s, tok, val) ==
  LET hits == { n \in DOMAIN s : s[n] = tok }
  IN  IF hits = {} THEN s
      ELSE LET p == CHOOSE n \in hits : \A m \in hits : n <= m
           IN  SubSeq(s, 1, p - 1) \o val \o SubSeq(s, p + 1, Len(s))

\* convert.ts:182: replace(/\.[^\.]+$/, '') removes the last dot and what follows
\* it, when something follows it.
StripExt(s) ==
  LET dots == { n \in DOMAIN s : s[n] = "." }
  IN  IF dots = {} THEN s
      ELSE LET p == CHOOSE n \in dots : \A m \in dots : m <= n
           IN  IF p < Len(s) THEN SubSeq(s, 1, p - 1) ELSE s

\* convert.ts:170-173
Tpl(o, cand) ==
  ReplaceFirst(
    ReplaceFirst(
      ReplaceFirst(
        ReplaceFirst(IF o.template = << >> THEN DefaultTemplate ELSE o.template,
                     "{basename}", Atoms(cand.base)),
        "{ext}", ExtWord(cand.ext)),
      "{bitrate}", NumberString(o.bitrateKbps)),
    "{vbr}", NumberString(o.vbrLevel))

\* convert.ts:182: baseName
OutName(o, cand) == StripExt(Tpl(o, cand))

\* ------------------------------------------------------- encoder arguments
\* What the ffmpeg command of toMp3 is given as its rate: a VBR quality or a
\* bitrate in kbps.
Rate(kind, v) == [kind |-> kind, v |-> v]
NoRate == Rate("none", 0)

RateSelectorBitrateFirst(o) ==
  IF o.bitrateKbps.k = "num" THEN Rate("bitrate", Max(32, o.bitrateKbps.v))
  ELSE IF o.vbrLevel.k = "num" THEN Rate("quality", Min(9, Max(0, o.vbrLevel.v)))
  ELSE Rate("bitrate", 192)

\* shortpath.ts:212-220
RateSelector(o) ==
  IF o.vbrLevel.k = "num" THEN Rate("quality", Min(9, Max(0, o.vbrLevel.v)))
  ELSE IF o.bitrateKbps.k = "num" THEN Rate("bitrate", Max(32, o.bitrateKbps.v))
  ELSE Rate("bitrate", 192)

\* What the ffmpeg command is given as its start time and its duration.
NoSeek == [start |-> Undef, duration |-> Undef]

BuildBaseNoClamp(trim) ==
  [ start |-> trim.start,
    duration |-> IF trim.end # Undef /\ trim.start # Undef
                 THEN Num(trim.end.v - trim.start.v)
                 ELSE IF trim.end # Undef THEN Num(trim.end.v)
                 ELSE Undef ]

\* shortpath.ts:180-186
BuildBase(trim) ==
  [ start |-> trim.start,
    duration |-> IF trim.end # Undef /\ trim.start # Undef
                 THEN Num(Max(0, trim.end.v - trim.start.v))
                 ELSE IF trim.end # Undef THEN Num(Max(0, trim.end.v))
                 ELSE Undef ]

\* ------------------------------------------------------ encoder selection
\* convert.ts:177-180
ExtOut(o) ==
  IF o.format = "none" THEN ".mp3"
  ELSE IF o.format = "aac" THEN ".m4a"
  ELSE "." \o o.format

\* convert.ts:242-248
ConvertFn(o) ==
  IF ExtOut(o) \in {".m4a", ".aac"} THEN "toAac"
  ELSE IF ExtOut(o) = ".flac" THEN "toFlac"
  ELSE IF ExtOut(o) = ".ogg" THEN "toOgg"
  ELSE IF ExtOut(o) = ".opus" THEN "toOpus"
  ELSE "toMp3"

\* shortpath.ts:279: the members of the object createConverter returns.
ConverterMembers == {"toMp3", "extractFrame", "probeTags", "extractAttachedPicture"}

AttemptsOneMore(o) == Max(1, IF o.hasRetry THEN o.retryAttempts ELSE 1) + 1

\* convert.ts:284
Attempts(o) == Max(1, IF o.hasRetry THEN o.retryAttempts ELSE 1)

\* ------------------------------------------------------ loudness statistics
\* The four statistics pass 2 reads.  Values are in tenths (-15 stands for -1.5).
LoudKeys == {"measured_I", "measured_TP", "measured_LRA", "measured_thresh"}
DefaultI == -160
DefaultTP == -15
DefaultLRA == 110
DefaultThresh == -260

\* shortpath.ts:227: the value each statistic falls back to.
LoudDefault(k) ==
  IF k = "measured_I" THEN DefaultI
  ELSE IF k = "measured_TP" THEN DefaultTP
  ELSE IF k = "measured_LRA" THEN DefaultLRA
  ELSE DefaultThresh

\* Values a report of pass 1 can hold for a statistic.
Measured == {0, -230}

\* What pass 1 ends with: k is "error" (the engine failed) or "end"; json tells
\* whether the text between the first '{' and the last '}' of its output parses,
\* stats is the object it parses to (Undef for a statistic that is absent).
Report(k, json, stats) == [k |-> k, json |-> json, stats |-> stats]
EmptyStats == [k \in LoudKeys |-> Undef]
NoReport == Report("none", FALSE, EmptyStats)
PassOneError == Report("error", FALSE, EmptyStats)
Garbled == Report("end", FALSE, EmptyStats)
FullStats == Report("end", TRUE, [k \in LoudKeys |-> Num(-230)])
Reports ==
  {PassOneError, Garbled} \cup
  { Report("end", TRUE, st) : st \in [LoudKeys -> {Undef} \cup { Num(v) : v \in Measured }] }

\* shortpath.ts:155-169: what measureLoudness resolves with when pass 1 ends.
MeasureLoudness(r) == IF r.json THEN r.stats ELSE EmptyStats

Pass2FilterOr(ln) ==
  [k \in LoudKeys |-> IF ln[k] = Undef \/ ln[k] = Num(0) THEN Num(LoudDefault(k)) ELSE ln[k]]

\* shortpath.ts:226-227: the measured_* parameters of the pass 2 filter.
Pass2Filter(ln) ==
  [k \in LoudKeys |-> IF ln[k] = Undef THEN Num(LoudDefault(k)) ELSE ln[k]]


\* ------------------------------------------------------- input resolution
\* An extension is its lower-case spelling and whether the spelling at hand has
\* upper-case letters.
Ext(low) == [low |-> low, cased |-> FALSE]
Cased(low) == [low |-> low, cased |-> TRUE]
NoExt == Ext("")

\* String.prototype.toLowerCase (convert.ts:61).
Lower(e) == [e EXCEPT !.cased = FALSE]

\* convert.ts:57-58
VIDEO_EXTS == {".mp4", ".mov", ".mkv", ".avi", ".webm", ".flv", ".wmv", ".m4v", ".3gp"}
AUDIO_EXTS == {".mp3", ".wav", ".m4a", ".aac", ".flac", ".ogg", ".opus", ".wma"}

IsMediaLikeAsSpelled(path) ==
  path.ext \in { Ext(x) : x \in VIDEO_EXTS \cup AUDIO_EXTS }

\* convert.ts:60-63
IsMediaLike(path) ==
  Lower(path.ext) \in { Ext(x) : x \in VIDEO_EXTS \cup AUDIO_EXTS }

\* A file system entry, named by its normalised absolute path.
File(d, b, e) == [dir |-> d, base |-> b, ext |-> e]

\* A path string: the entry it names and the form of the string: "n" is the
\* platform's normalised form (what path.resolve returns), "raw" a spelling with a
\* drive or UNC prefix that is not normalised, "u" the form with forward slashes
\* that differs from "n" on win32 only.
Path(f, form) == [dir |-> f.dir, base |-> f.base, ext |-> f.ext, form |-> form]
FileOf(path) == File(path.dir, path.base, path.ext)

\* An input specifier: empty is the empty string; file is the entry the string
\* names when it is read as a path; asIs tells whether it begins with a UNC or
\* drive prefix (convert.ts:141) and norm whether its spelling is normalised; meta
\* whether it holds one of * ? [ ] { } !; neg whether it begins with '!'; matches
\* are the entries it matches when it is read as a pattern.
Specifier(text, f, asIs, norm, meta, neg, matches) ==
  [ text |-> text, empty |-> FALSE, file |-> f, asIs |-> asIs, norm |-> norm,
    meta |-> meta, neg |-> neg, matches |-> matches ]

\* convert.ts:141-143
Abs(inp) == Path(inp.file, IF inp.asIs /\ ~inp.norm THEN "raw" ELSE "n")

\* convert.ts:136
IsGlob(inp) == inp.meta

\* convert.ts:140, 145: the specifier names an existing regular file.
IsDirect(inp, dsk) == ~inp.empty /\ inp.file \in dsk.files

IsPatternGlobFirst(inp, dsk) == ~inp.empty /\ IsGlob(inp)

\* convert.ts:140, 145-146: the specifier is handed to the pattern expansion.
IsPattern(inp, dsk) == ~inp.empty /\ ~IsDirect(inp, dsk) /\ IsGlob(inp)

\* convert.ts:137-147: the two lists the loop builds.
Direct(ins, dsk) ==
  LET keep(inp) == IsDirect(inp, dsk)
      kept == SelectSeq(ins, keep)
  IN  [k \in 1..Len(kept) |-> Abs(kept[k])]

Patterns(ins, dsk) ==
  LET keep(inp) == IsPattern(inp, dsk) IN SelectSeq(ins, keep)

\* convert.ts:148-150: the paths fast-glob returns: the regular files a positive
\* pattern matches and no negative pattern matches, once each, absolute, with
\* forward slashes.
Globbed(pats, dsk, plat) ==
  LET pos == UNION { pats[k].matches : k \in { j \in 1..Len(pats) : ~pats[j].neg } }
      neg == UNION { pats[k].matches : k \in { j \in 1..Len(pats) : pats[j].neg } }
  IN  { Path(f, IF plat = "win32" THEN "u" ELSE "n") : f \in (pos \ neg) \cap dsk.files }

\* The orders in which a set can be listed.
Orders(S) ==
  { q \in [1..Cardinality(S) -> S] : \A a, b \in 1..Cardinality(S) : a # b => q[a] # q[b] }

\* convert.ts:151: Array.from(new Set(list)) keeps the first of equal strings.
RECURSIVE Dedup(_)
Dedup(list) ==
  IF list = << >> THEN << >>
  ELSE LET r == Dedup(SubSeq(list, 1, Len(list) - 1))
           x == list[Len(list)]
       IN  IF \E k \in 1..Len(r) : r[k] = x THEN r ELSE Append(r, x)

NoResolution == [direct |-> << >>, patterns |-> << >>, globbed |-> << >>, all |-> << >>]

\* No call of detectFromFilename.
NoCall ==
  [state |-> "none", base |-> << >>, guess |-> NoGuess,
   form |-> "any", left |-> << >>, right |-> << >>]

\* ------------------------------------------------------------------ state
VARIABLES
  opts,        \* the ConvertOptions of the run
  candidates,  \* the resolved candidate list (convert.ts:152)
  inputState,  \* per candidate: "ok", "empty" (0 bytes) or "missing" when its task runs
  unwritable,  \* output directories mkdirSync cannot create
  fsOut,       \* output paths that exist as files
  dirs,        \* output directories created by the run
  paused,      \* the flag of the controller: set by pause, cleared by resume
  backend,     \* the answers the transcoding engine can give in this run
  runState,    \* the call of convertPaths: "called", "init" (inputs resolved), "running",
               \* "resolved", "rejected"
  runError,    \* why it rejected
  returned,    \* the list it resolved with
  idxCounter,  \* convert.ts:164
  task,        \* per candidate: the state of its limiter callback
  inputs,      \* the input specifiers given to convertPaths
  disk,        \* the files and folders that exist where the inputs point
  platform,    \* "posix" or "win32"
  resolution,  \* the lists of convert.ts:137-151
  run,         \* which call of convertPaths with this request this is, and how many follow
  fs0,         \* the output files that existed when this call began
  prev,        \* the tasks of the previous call as they ended
  detect,      \* a call of detectFromFilename: its argument and what it returned
  queue,       \* the persisted resume queue (queue.json): pending, done, fail
  gui,         \* the start-convert handler: its run, the files it left
  preview,     \* what preview-output returned for the request (empty before)
  guessed,     \* per candidate: what detectFromFilename returns for its base name
  baseName     \* per candidate: the output name computed from the template

vars == << opts, candidates, inputState, unwritable, fsOut, dirs, paused, backend,
           runState, runError, returned, idxCounter, task, run, fs0, prev,
           inputs, disk, platform, resolution, detect, queue, gui, preview, guessed, baseName >>

\* What the calls of convertPaths leave alone.
aside == << detect, queue, gui, preview, guessed, baseName >>

\* What the handlers of the GUI leave alone.
core ==
  << opts, candidates, inputState, unwritable, fsOut, dirs, paused, backend, runState,
     runError, returned, idxCounter, task, run, fs0, prev, inputs, disk, platform,
     resolution, detect >>

Tasks == 1..Len(candidates)

\* convert.ts:168-183: the directory and the file name.
OutDir(i) == IF opts.keepStructure THEN candidates[i].dir ELSE 0
OutPath(i) ==
  [dir |-> OutDir(i), name |-> baseName[i], ext |-> ExtOut(opts)]

NoPath == [dir |-> 0, name |-> << >>, ext |-> ""]
NoInput == [dir |-> 0, base |-> "", ext |-> NoExt, form |-> "n"]
NoResult == [set |-> FALSE, input |-> NoInput, output |-> NoPath, ok |-> FALSE, error |-> "none"]

NewTask ==
  [ pc |-> "none", events |-> << >>, calls |-> << >>, made |-> 0, lastErr |-> "none",
    cover |-> "none", tempCover |-> "none", tmpFiles |-> {}, result |-> NoResult,
    lastPct |-> 0, nProg |-> 0, index |-> 0, sawOutput |-> FALSE,
    attempts |-> << >>, report |-> NoReport, filter |-> EmptyStats,
    autoTags |-> NoTags, metadata |-> NoMetadata, covers |-> << >>, unlinked |-> {},
    failed |-> {}, tSec |-> Undef, trim |-> ParseTrim(<< >>), rate |-> NoRate,
    seek |-> NoSeek, delays |-> 0, doneInfo |-> NoResult ]

Event(type, n, ok, error) == [type |-> type, n |-> n, ok |-> ok, error |-> error]

\* A callback is invoked only when it was supplied (convert.ts:192, 204, 280, 293, 306).
Emit(t, e) == IF opts.callbacks THEN [t EXCEPT !.events = Append(@, e)] ELSE t

\* Tasks the limiter has started and whose promise has not settled.
InFlight == { i \in Tasks : task[i].pc \notin {"none", "queued", "done", "rejected"} }

\* ------------------------------------------------------- the task body
FinishEventAlwaysOk(t, i, ok, error) ==
  [ Emit(t, Event("done", 0, TRUE, "none")) EXCEPT
      !.pc = "done",
      !.doneInfo = IF opts.callbacks
                   THEN [set |-> TRUE, input |-> candidates[i], output |-> OutPath(i),
                         ok |-> TRUE, error |-> "none"]
                   ELSE @,
      !.result = [set |-> TRUE, input |-> candidates[i], output |-> OutPath(i),
                  ok |-> ok, error |-> error] ]

\* convert.ts:204-205, 293-294, 306-307: the done callback, with what it is called
\* with, and the returned result.
Finish(t, i, ok, error) ==
  [ Emit(t, Event("done", 0, ok, error)) EXCEPT
      !.pc = "done",
      !.doneInfo = IF opts.callbacks
                   THEN [set |-> TRUE, input |-> candidates[i], output |-> OutPath(i),
                         ok |-> ok, error |-> error]
                   ELSE @,
      !.result = [set |-> TRUE, input |-> candidates[i], output |-> OutPath(i),
                  ok |-> ok, error |-> error] ]

\* convert.ts:290-294: the success path deletes the temporary cover.
Succeed(t, i) ==
  Finish([t EXCEPT !.tmpFiles = IF t.tempCover # "none" THEN @ \ {t.tempCover} ELSE @,
                   !.unlinked = IF t.tempCover # "none" THEN @ \cup {t.tempCover} ELSE @,
                   !.attempts = Append(@, "ok")],
         i, TRUE, "none")

\* convert.ts:295-308: the catch block.
Fail(t, i) == Finish(t, i, FALSE, t.lastErr)

\* shortpath.ts:208-276: the encode pass of toMp3 begins; r is what pass 1 ended with.
BeginEncode(t, r) ==
  [t EXCEPT !.calls = Append(@, "encode"), !.pc = "encode", !.lastPct = 0,
            !.report = r,
            !.rate = RateSelector(opts),
            !.seek = BuildBase(t.trim),
            !.filter = IF opts.loudnorm THEN Pass2Filter(MeasureLoudness(r)) ELSE EmptyStats]

RECURSIVE StartAttempt(_, _)
RECURSIVE AttemptFailed(_, _, _)
RECURSIVE NextIter(_, _)

\* convert.ts:286-289: the loop goes on while attempts are left.
NextIter(t, i) ==
  IF t.made < Attempts(opts) THEN StartAttempt(t, i) ELSE Fail(t, i)

\* convert.ts:288: the catch of one attempt.
AttemptFailed(t, i, error) ==
  LET t1 == [t EXCEPT !.lastErr = error, !.attempts = Append(@, error)]
  IN  IF opts.retryDelayMs > 0
      THEN [t1 EXCEPT !.pc = "retryDelay"]
      ELSE NextIter(t1, i)

\* convert.ts:249-282: the encoder is called with the arguments of the attempt.
CallEncoder(t, i) ==
  [t EXCEPT !.calls = Append(@, "toMp3"),
            !.covers = Append(@, t.cover),
            !.trim = ParseTrim(opts.trim),
            !.metadata = Merged(opts, t.autoTags, FileNameTags(opts, guessed[i]))]

StartAttemptAlwaysMeasures(t, i) ==
  LET t1 == [t EXCEPT !.made = @ + 1, !.report = NoReport, !.filter = EmptyStats]
      t2 == CallEncoder(t1, i)
  IN  IF ConvertFn(opts) \notin ConverterMembers THEN AttemptFailed(t1, i, "notAFunction")
      ELSE IF inputState[i] = "empty" THEN AttemptFailed(t2, i, "empty")
      ELSE IF inputState[i] = "missing" THEN AttemptFailed(t2, i, "notFound")
      ELSE [t2 EXCEPT !.calls = Append(@, "measureLoudness"), !.pc = "measure"]

\* convert.ts:249, 287 and shortpath.ts:190-206: one attempt up to its first await.
StartAttempt(t, i) ==
  LET t1 == [t EXCEPT !.made = @ + 1, !.report = NoReport, !.filter = EmptyStats]
      t2 == CallEncoder(t1, i)
  IN  IF ConvertFn(opts) \notin ConverterMembers THEN AttemptFailed(t1, i, "notAFunction")
      ELSE IF inputState[i] = "empty" THEN AttemptFailed(t2, i, "empty")
      ELSE IF inputState[i] = "missing" THEN AttemptFailed(t2, i, "notFound")
      ELSE IF opts.loudnorm
           THEN [t2 EXCEPT !.calls = Append(@, "measureLoudness"), !.pc = "measure"]
           ELSE BeginEncode(t2, NoReport)

\* convert.ts:228-239: the frame fallback.
FrameStage(t, i) ==
  IF t.cover = "none"
  THEN [t EXCEPT !.calls = Append(@, "extractFrame"), !.pc = "frame",
                 !.tSec = Num(TSec(opts, candidates[i].base))]
  ELSE StartAttempt(t, i)

AfterProbeFatal(t0, i, r) ==
  LET t == [t0 EXCEPT !.autoTags = IF r \in {"tags", "pic"} THEN backend.tags ELSE NoTags,
                      !.failed = IF r \in {"tags", "pic"} THEN @ ELSE @ \cup {"probeTags"}]
  IN
  IF r \notin {"tags", "pic"} THEN Finish([t EXCEPT !.lastErr = "probe"], i, FALSE, "probe") ELSE
  IF t.cover = "none" /\ r = "pic"
  THEN [t EXCEPT !.calls = Append(@, "extractAttachedPicture"), !.pc = "attached"]
  ELSE FrameStage(t, i)

\* convert.ts:212-218: what follows the probe.
AfterProbe(t0, i, r) ==
  LET t == [t0 EXCEPT !.autoTags = IF r \in {"tags", "pic"} THEN backend.tags ELSE NoTags,
                      !.failed = IF r \in {"tags", "pic"} THEN @ ELSE @ \cup {"probeTags"}]
  IN
  IF t.cover = "none" /\ r = "pic"
  THEN [t EXCEPT !.calls = Append(@, "extractAttachedPicture"), !.pc = "attached"]
  ELSE FrameStage(t, i)

\* convert.ts:216, 237: the extracted file becomes the cover when it exists.
AfterExtract(t, kind, r) ==
  IF r = "file"
  THEN [t EXCEPT !.cover = kind, !.tempCover = kind, !.tmpFiles = @ \cup {kind}]
  ELSE [t EXCEPT !.failed = @ \cup {IF kind = "frame" THEN "extractFrame"
                                    ELSE "extractAttachedPicture"}]

CallProbeDropsUserCover(t, i) ==
  [t EXCEPT
     !.cover = "none",
     !.calls = IF inputState[i] = "ok" THEN @ \o << "probeTags", "ffprobe" >>
               ELSE Append(@, "probeTags"),
     !.pc = "probe"]

\* convert.ts:208-212 and shortpath.ts:58-72: probeTags is called; it runs ffprobe
\* only when the input passes its own check.
CallProbe(t, i) ==
  [t EXCEPT
     !.cover = IF opts.userCover THEN "user" ELSE "none",
     !.calls = IF inputState[i] = "ok" THEN @ \o << "probeTags", "ffprobe" >>
               ELSE Append(@, "probeTags"),
     !.pc = "probe"]

AfterDelayNoDryRun(t, i) == CallProbe(t, i)

\* convert.ts:202-207
AfterDelay(t, i) ==
  IF opts.dryRun THEN Finish(t, i, TRUE, "none") ELSE CallProbe(t, i)

\* What the backend can answer.
ProbeOutcomes(i) == IF inputState[i] = "ok" THEN backend.probe ELSE {"throw"}
ExtractOutcomes(i) == IF inputState[i] = "ok" THEN backend.extract ELSE {"error"}

SkipNever(i) == FALSE

\* convert.ts:187: the skip rule.
SkipExisting(i) == ~opts.overwrite /\ OutPath(i) \in fsOut

\* convert.ts:223: detectFromFilename is called and returns.
Detect ==
  /\ detect.state = "called"
  /\ detect' = [detect EXCEPT !.state = "returned", !.guess = DetectFromTokens(detect.base)]
  /\ UNCHANGED << inputs, disk, platform, resolution, run, fs0, prev, opts, candidates,
                  inputState, unwritable, backend, fsOut, dirs, paused, runState, runError,
                  returned, idxCounter, task, queue, gui, preview, guessed, baseName >>

\* ------------------------------------------------- the start-convert handler
\* The paths the GUI hands over: absolute paths of two media files and of a file
\* that is no media file, each equal to the candidate convertPaths makes of it.
MediaA == "/m/a.mp4"
MediaB == "/m/b.mp4"
Notes == "/m/n.txt"
QueuePaths == {MediaA, MediaB, Notes}

\* convert.ts:150: the paths that become candidates.
QueueCandidates(list) == { list[k] : k \in { n \in DOMAIN list : list[n] # Notes } }

\* part_001:55-62: the queue when no queue file exists.
EmptyQueue == [pending |-> << >>, done |-> << >>, fail |-> << >>]

Idle == [state |-> "idle", working |-> << >>, todo |-> {}, overwrite |-> FALSE, outs |-> {}, runs |-> 0]

\* part_001:84-102: start-convert with resume enabled up to the call of convertPaths:
\* the pending paths and the inputs are merged, and the merged list is persisted as
\* pending and converted.
StartConvert(ins, ow) ==
  /\ gui.state \in {"idle", "returned"}
  /\ gui.runs < MaxRuns
  /\ LET merged == Dedup(queue.pending \o ins)
     IN  /\ queue' = [queue EXCEPT !.pending = merged]
         /\ gui' = [gui EXCEPT !.state = "running", !.working = merged,
                               !.todo = QueueCandidates(merged),
                               !.overwrite = ow, !.runs = @ + 1]
  /\ UNCHANGED << core, preview, guessed, baseName >>

\* part_001:140-156: the onFileDone callback of the task of path p.  The task
\* reports when it is not skipped (convert.ts:187-189); an ok task wrote its output.
FileDone(p, ok) ==
  /\ gui.state = "running"
  /\ p \in gui.todo
  /\ gui.overwrite \/ p \notin gui.outs
  /\ queue' = [pending |-> SelectSeq(queue.pending, LAMBDA q : q # p),
               done |-> IF ok THEN Append(queue.done, p) ELSE queue.done,
               fail |-> IF ok THEN queue.fail ELSE Append(queue.fail, p)]
  /\ gui' = [gui EXCEPT !.todo = @ \ {p}, !.outs = IF ok THEN @ \cup {p} ELSE @]
  /\ UNCHANGED << core, preview, guessed, baseName >>

\* convert.ts:187-189: the task of path p finds its output and returns without a
\* callback.
FileSkipped(p) ==
  /\ gui.state = "running"
  /\ p \in gui.todo
  /\ ~gui.overwrite /\ p \in gui.outs
  /\ gui' = [gui EXCEPT !.todo = @ \ {p}]
  /\ UNCHANGED << core, queue, preview, guessed, baseName >>

\* part_001:104, 157: convertPaths has resolved and the handler returns.
HandlerReturn ==
  /\ gui.state = "running"
  /\ gui.todo = {}
  /\ gui' = [gui EXCEPT !.state = "returned"]
  /\ UNCHANGED << core, queue, preview, guessed, baseName >>

\* ------------------------------------------------ the preview-output handler
\* A truthy number: given, and neither 0 nor NaN (part_001:347-348).
TruthyNumber(v) == v.k = "num" /\ v.v # 0

\* part_001:342-349: the path the preview gives for one input: the directory handed
\* in and the file name made of the template.
Preview(o, cand) ==
  LET template == IF o.template = << >> THEN DefaultTemplate ELSE o.template
      named == ReplaceFirst(ReplaceFirst(template, "{basename}", Atoms(cand.base)),
                            "{ext}", ExtWord(cand.ext))
      rated == IF TruthyNumber(o.bitrateKbps)
               THEN ReplaceFirst(named, "{bitrate}", NumberString(o.bitrateKbps))
               ELSE named
      outName == IF TruthyNumber(o.vbrLevel)
                 THEN ReplaceFirst(rated, "{vbr}", NumberString(o.vbrLevel))
                 ELSE rated
  IN  [dir |-> 0, file |-> outName]

\* part_001:339-353: preview-output for the inputs and options of the request.
PreviewOutput ==
  /\ preview = << >>
  /\ Len(candidates) > 0
  /\ preview' = [i \in Tasks |-> Preview(opts, candidates[i])]
  /\ UNCHANGED << core, queue, gui, guessed, baseName >>

\* ---------------------------------------------------------------- actions
\* convert.ts:134-152: the inputs are resolved to the candidate list.  fast-glob
\* returns its matches in an order of its own.
Resolve ==
  /\ runState = "called"
  /\ LET d == Direct(inputs, disk)
         p == Patterns(inputs, disk)
     IN  \E g \in Orders(Globbed(p, disk, platform)) :
           /\ resolution' = [direct |-> d, patterns |-> p, globbed |-> g,
                             all |-> Dedup(d \o g)]
           /\ candidates' = SelectSeq(Dedup(d \o g), IsMediaLike)
  /\ runState' = "init"
  /\ UNCHANGED << aside, inputs, disk, platform, run, fs0, prev, opts, inputState, unwritable,
                  backend, fsOut, dirs, paused, runError, returned, idxCounter, task >>

BeginTrimFirst ==
  /\ runState = "init"
  /\ IF TrimThrows(opts.trim)
     THEN /\ runState' = "rejected"
          /\ runError' = "trim"
          /\ UNCHANGED task
     ELSE IF Len(candidates) = 0
     THEN /\ runState' = "resolved"
          /\ UNCHANGED << runError, task >>
     ELSE /\ runState' = "running"
          /\ task' = [i \in Tasks |-> [task[i] EXCEPT !.pc = "queued"]]
          /\ UNCHANGED runError
  /\ UNCHANGED << aside, inputs, disk, platform, resolution, run, fs0, prev, opts, candidates, inputState, unwritable, backend, fsOut, dirs, paused,
                  returned, idxCounter >>

\* convert.ts:152-167: after input resolution, up to the creation of the tasks.
Begin ==
  /\ runState = "init"
  /\ IF Len(candidates) = 0
     THEN /\ runState' = "resolved"
          /\ UNCHANGED << runError, task >>
     ELSE IF TrimThrows(opts.trim)
     THEN /\ runState' = "rejected"
          /\ runError' = "trim"
          /\ UNCHANGED task
     ELSE /\ runState' = "running"
          /\ task' = [i \in Tasks |-> [task[i] EXCEPT !.pc = "queued"]]
          /\ UNCHANGED runError
  /\ UNCHANGED << aside, inputs, disk, platform, resolution, run, fs0, prev, opts, candidates, inputState, unwritable, backend, fsOut, dirs, paused,
                  returned, idxCounter >>

AdmitAnyOrder(i) ==
  /\ task[i].pc = "queued"
  /\ Cardinality(InFlight) < Concurrency(opts)
  /\ IF ~opts.dryRun /\ OutDir(i) \in unwritable
     THEN /\ task' = [task EXCEPT ![i].pc = "rejected"]
          /\ runState' = IF runState = "running" THEN "rejected" ELSE runState
          /\ runError' = IF runState = "running" THEN "mkdir" ELSE runError
          /\ UNCHANGED << dirs, idxCounter >>
     ELSE /\ dirs' = IF opts.dryRun THEN dirs ELSE dirs \cup {OutDir(i)}
          /\ IF SkipExisting(i)
             THEN /\ task' = [task EXCEPT ![i] =
                        [@ EXCEPT !.pc = "done",
                                  !.sawOutput = OutPath(i) \in fsOut,
                                  !.result = [set |-> TRUE, input |-> candidates[i],
                                              output |-> OutPath(i),
                                              ok |-> TRUE, error |-> "none"]]]
                  /\ UNCHANGED idxCounter
             ELSE /\ task' = [task EXCEPT ![i] =
                        [Emit(@, Event("start", idxCounter, TRUE, "none")) EXCEPT
                           !.pc = "gate", !.index = idxCounter,
                           !.sawOutput = OutPath(i) \in fsOut]]
                  /\ idxCounter' = idxCounter + 1
          /\ UNCHANGED << runState, runError >>
  /\ UNCHANGED << aside, inputs, disk, platform, resolution, run, fs0, prev, opts, candidates, inputState, unwritable, backend, fsOut, paused, returned >>

\* convert.ts:159, 167-196: the limiter starts the next queued task, which runs to
\* its first await.
Admit(i) ==
  /\ task[i].pc = "queued"
  /\ \A j \in Tasks : j < i => task[j].pc # "queued"
  /\ Cardinality(InFlight) < Concurrency(opts)
  /\ IF ~opts.dryRun /\ OutDir(i) \in unwritable
     THEN /\ task' = [task EXCEPT ![i].pc = "rejected"]
          /\ runState' = IF runState = "running" THEN "rejected" ELSE runState
          /\ runError' = IF runState = "running" THEN "mkdir" ELSE runError
          /\ UNCHANGED << dirs, idxCounter >>
     ELSE /\ dirs' = IF opts.dryRun THEN dirs ELSE dirs \cup {OutDir(i)}
          /\ IF SkipExisting(i)
             THEN /\ task' = [task EXCEPT ![i] =
                        [@ EXCEPT !.pc = "done",
                                  !.sawOutput = OutPath(i) \in fsOut,
                                  !.result = [set |-> TRUE, input |-> candidates[i],
                                              output |-> OutPath(i),
                                              ok |-> TRUE, error |-> "none"]]]
                  /\ UNCHANGED idxCounter
             ELSE /\ task' = [task EXCEPT ![i] =
                        [Emit(@, Event("start", idxCounter, TRUE, "none")) EXCEPT
                           !.pc = "gate", !.index = idxCounter,
                           !.sawOutput = OutPath(i) \in fsOut]]
                  /\ idxCounter' = idxCounter + 1
          /\ UNCHANGED << runState, runError >>
  /\ UNCHANGED << aside, inputs, disk, platform, resolution, run, fs0, prev, opts, candidates, inputState, unwritable, backend, fsOut, paused, returned >>

GateIgnoresPause(i) ==
  /\ task[i].pc = "gate"
  /\ task' = [task EXCEPT ![i] =
        IF opts.throttleDelayMs > 0 THEN [@ EXCEPT !.pc = "throttle"] ELSE AfterDelay(@, i)]
  /\ UNCHANGED << aside, inputs, disk, platform, resolution, run, fs0, prev, opts, candidates, inputState, unwritable, backend, fsOut,
                  dirs, paused, runState, runError, returned, idxCounter >>

\* convert.ts:165: what the gate reads: controller.isPaused(), when the controller
\* has that method.
IsPaused == opts.controller /\ opts.isPaused /\ paused

\* convert.ts:165, 198-201: the pause gate lets the task through.
Gate(i) ==
  /\ task[i].pc = "gate"
  /\ ~IsPaused
  /\ task' = [task EXCEPT ![i] =
        IF opts.throttleDelayMs > 0 THEN [@ EXCEPT !.pc = "throttle"] ELSE AfterDelay(@, i)]
  /\ UNCHANGED << aside, inputs, disk, platform, resolution, run, fs0, prev, opts, candidates, inputState, unwritable, backend, fsOut, dirs, paused,
                  runState, runError, returned, idxCounter >>

\* convert.ts:199-201: the throttle delay has passed.
ThrottleElapsed(i) ==
  /\ task[i].pc = "throttle"
  /\ task' = [task EXCEPT ![i] = AfterDelay(@, i)]
  /\ UNCHANGED << aside, inputs, disk, platform, resolution, run, fs0, prev, opts, candidates, inputState, unwritable, backend, fsOut, dirs, paused,
                  runState, runError, returned, idxCounter >>

\* convert.ts:212-218: probeTags settles.
ProbeReturn(i) ==
  /\ task[i].pc = "probe"
  /\ \E r \in ProbeOutcomes(i) : task' = [task EXCEPT ![i] = AfterProbe(@, i, r)]
  /\ UNCHANGED << aside, inputs, disk, platform, resolution, run, fs0, prev, opts, candidates, inputState, unwritable, backend, fsOut, dirs, paused,
                  runState, runError, returned, idxCounter >>

\* convert.ts:215-217: extractAttachedPicture settles.
AttachedReturn(i) ==
  /\ task[i].pc = "attached"
  /\ \E r \in ExtractOutcomes(i) :
       task' = [task EXCEPT ![i] = FrameStage(AfterExtract(@, "attached", r), i)]
  /\ UNCHANGED << aside, inputs, disk, platform, resolution, run, fs0, prev, opts, candidates, inputState, unwritable, backend, fsOut, dirs, paused,
                  runState, runError, returned, idxCounter >>

\* convert.ts:236-238: extractFrame settles.
FrameReturn(i) ==
  /\ task[i].pc = "frame"
  /\ \E r \in ExtractOutcomes(i) :
       task' = [task EXCEPT ![i] = StartAttempt(AfterExtract(@, "frame", r), i)]
  /\ UNCHANGED << aside, inputs, disk, platform, resolution, run, fs0, prev, opts, candidates, inputState, unwritable, backend, fsOut, dirs, paused,
                  runState, runError, returned, idxCounter >>

\* shortpath.ts:206: measureLoudness settles (pass 1).
MeasureReturn(i) ==
  /\ task[i].pc = "measure"
  /\ \E r \in backend.measure :
       task' = [task EXCEPT ![i] =
          IF r.k = "end" THEN BeginEncode(@, r)
          ELSE AttemptFailed([@ EXCEPT !.report = r], i, "measure")]
  /\ UNCHANGED << aside, inputs, disk, platform, resolution, run, fs0, prev, opts, candidates, inputState, unwritable, backend, fsOut, dirs, paused,
                  runState, runError, returned, idxCounter >>

\* convert.ts:278-281 and shortpath.ts:256-259: the backend reports progress.
Progress(i) ==
  /\ task[i].pc = "encode"
  /\ backend.progress
  /\ task[i].nProg < MaxProgress
  /\ \E p \in Percents :
       /\ p >= task[i].lastPct
       /\ task' = [task EXCEPT ![i] =
            [Emit(@, Event("progress", p, TRUE, "none")) EXCEPT
               !.lastPct = p, !.nProg = @ + 1]]
  /\ UNCHANGED << aside, inputs, disk, platform, resolution, run, fs0, prev, opts, candidates, inputState, unwritable, backend, fsOut, dirs, paused,
                  runState, runError, returned, idxCounter >>

\* shortpath.ts:260-269 and convert.ts:287-294: the encode ends or fails.  An encode
\* that ends has written the output; one that fails may leave a partial output file.
EncodeReturn(i) ==
  /\ task[i].pc = "encode"
  /\ \E r \in backend.encode :
       IF r = "end"
       THEN /\ fsOut' = fsOut \cup {OutPath(i)}
            /\ task' = [task EXCEPT ![i] = Succeed(@, i)]
       ELSE /\ task' = [task EXCEPT ![i] = AttemptFailed(@, i, "ffmpeg")]
            /\ fsOut' \in {fsOut} \cup (IF backend.partial THEN {fsOut \cup {OutPath(i)}} ELSE {})
  /\ UNCHANGED << aside, inputs, disk, platform, resolution, run, fs0, prev, opts, candidates, inputState, unwritable, backend, dirs, paused,
                  runState, runError, returned, idxCounter >>

\* convert.ts:288: the retry delay has passed.
RetryDelayElapsed(i) ==
  /\ task[i].pc = "retryDelay"
  /\ task' = [task EXCEPT ![i] = NextIter([@ EXCEPT !.delays = @ + 1], i)]
  /\ UNCHANGED << aside, inputs, disk, platform, resolution, run, fs0, prev, opts, candidates, inputState, unwritable, backend, fsOut, dirs, paused,
                  runState, runError, returned, idxCounter >>

\* The consumer's controller while tasks are pending (part_001:159-160).
Pause ==
  /\ opts.controller /\ ~paused
  /\ \E i \in Tasks : task[i].pc \notin {"none", "done", "rejected"}
  /\ paused' = TRUE
  /\ UNCHANGED << aside, inputs, disk, platform, resolution, run, fs0, prev, opts, candidates, inputState, unwritable, backend, fsOut, dirs,
                  runState, runError, returned, idxCounter, task >>

Resume ==
  /\ paused
  /\ paused' = FALSE
  /\ UNCHANGED << aside, inputs, disk, platform, resolution, run, fs0, prev, opts, candidates, inputState, unwritable, backend, fsOut, dirs,
                  runState, runError, returned, idxCounter, task >>

SettleEarly ==
  /\ runState = "running"
  /\ \E i \in Tasks : task[i].pc = "done"
  /\ runState' = "resolved"
  /\ returned' = [i \in Tasks |-> task[i].result]
  /\ UNCHANGED << aside, inputs, disk, platform, resolution, run, fs0, prev, opts, candidates, inputState, unwritable, backend, fsOut, dirs, paused,
                  runError, idxCounter, task >>

\* convert.ts:311-313: Promise.all fulfils and convertPaths returns the results.
Settle ==
  /\ runState = "running"
  /\ \A i \in Tasks : task[i].pc = "done"
  /\ runState' = "resolved"
  /\ returned' = [i \in Tasks |-> task[i].result]
  /\ UNCHANGED << aside, inputs, disk, platform, resolution, run, fs0, prev, opts, candidates, inputState, unwritable, backend, fsOut, dirs, paused,
                  runError, idxCounter, task >>

\* convert.ts:120: the consumer calls convertPaths again with the same request once
\* the previous call has settled and its tasks have ended.
Rerun ==
  /\ runState \in {"resolved", "rejected"}
  /\ run.n < run.of
  /\ \A i \in Tasks : task[i].pc \in {"none", "done", "rejected"}
  /\ run' = [run EXCEPT !.n = @ + 1]
  /\ fs0' = fsOut
  /\ prev' = task
  /\ task' = [i \in Tasks |-> NewTask]
  /\ runState' = "init"
  /\ runError' = "none"
  /\ returned' = << >>
  /\ idxCounter' = 0
  /\ UNCHANGED << aside, inputs, disk, platform, resolution,
                  opts, candidates, inputState, unwritable, backend, fsOut, dirs, paused >>

Next ==
  \/ Begin
  \/ Settle
  \/ Rerun
  \/ Pause
  \/ Resume
  \/ \E i \in Tasks : Admit(i)
  \/ \E i \in Tasks : Gate(i)
  \/ \E i \in Tasks : ThrottleElapsed(i)
  \/ \E i \in Tasks : ProbeReturn(i)
  \/ \E i \in Tasks : AttachedReturn(i)
  \/ \E i \in Tasks : FrameReturn(i)
  \/ \E i \in Tasks : MeasureReturn(i)
  \/ \E i \in Tasks : Progress(i)
  \/ \E i \in Tasks : EncodeReturn(i)
  \/ \E i \in Tasks : RetryDelayElapsed(i)

\* -------------------------------------------------------------- scenarios
\* The runs that are explored: each family varies the options and the environment
\* of one concern in full and keeps the rest at BaseOpts.
Bases == {"a", "b"}
Cand(k, b) == Path(File(k, b, Ext(".mp4")), "n")

\* The plain relative spelling of an entry's path.
Literal(f) == Specifier("plain", f, FALSE, TRUE, FALSE, FALSE, {})

\* Candidate lists of n inputs that lie in distinct directories; the first is "a".
Lists(n) ==
  { [k \in 1..n |-> Cand(k, f[k])] : f \in { g \in [1..n -> Bases] : n = 0 \/ g[1] = "a" } }

\* An engine that finds tags and no cover and reports no progress.
Quiet ==
  [ probe |-> {"tags"}, extract |-> {"error"}, measure |-> {FullStats},
    encode |-> {"end", "error"}, progress |-> FALSE, partial |-> FALSE, tags |-> NoTags ]

Scenario(o, c, inp, ex, bad, be) ==
  [ opts |-> o, cands |-> c, inputs |-> inp, existing |-> ex, badDirs |-> bad, backend |-> be,
    runs |-> 1 ]

\* Scheduling: the concurrency limit, the throttle tier, the delays and the pause gate.
SchedScenarios ==
  { Scenario([BaseOpts EXCEPT !.hasConcurrency = c[1], !.concurrency = c[2],
                              !.throttle = th, !.throttleDelayMs = d,
                              !.hasRetry = TRUE, !.retryAttempts = 2, !.retryDelayMs = d,
                              !.controller = TRUE],
             Lists(MaxTasks), {"ok"}, FALSE, FALSE, Quiet) :
      c \in {<<FALSE, 0>>, <<TRUE, 0>>, <<TRUE, 1>>, <<TRUE, 4>>, <<TRUE, 100>>},
      th \in {"off", "medium", "low"},
      d \in {0, 10} }

\* Events: skip, dry run, progress reports and retries, with and without callbacks.
EventScenarios ==
  { Scenario([BaseOpts EXCEPT !.overwrite = ow, !.dryRun = dry, !.callbacks = cb,
                              !.hasRetry = TRUE, !.retryAttempts = n,
                              !.hasConcurrency = TRUE, !.concurrency = 1],
             Lists(1), {"ok"}, TRUE, FALSE,
             [Quiet EXCEPT !.progress = TRUE]) :
      ow \in BOOLEAN, dry \in BOOLEAN, cb \in BOOLEAN, n \in {0, 2} }

\* The pipeline of one task: input state, cover resolution, loudness pass, encoder.
PipelineScenarios ==
  { Scenario([BaseOpts EXCEPT !.userCover = uc, !.loudnorm = ln, !.format = fmt,
                              !.hasRetry = r[1], !.retryAttempts = r[2], !.retryDelayMs = r[3],
                              !.overwrite = TRUE],
             Lists(1), {"ok", "empty", "missing"}, FALSE, FALSE,
             [ probe |-> {"error", "tags", "pic"}, extract |-> {"file", "error"},
               measure |-> {FullStats, PassOneError}, encode |-> {"end", "error"},
               progress |-> FALSE, partial |-> FALSE, tags |-> NoTags ]) :
      uc \in BOOLEAN, ln \in BOOLEAN, fmt \in {"none", "flac"},
      r \in {<<FALSE, 0, 0>>, <<TRUE, 2, 0>>, <<TRUE, 2, 10>>, <<TRUE, 3, 0>>} }

\* Tasks that share an output path or an output directory that cannot be created.
SharedScenarios ==
  { Scenario([BaseOpts EXCEPT !.overwrite = ow, !.keepStructure = ks, !.dryRun = dry,
                              !.hasConcurrency = TRUE, !.concurrency = c],
             Lists(MaxTasks), {"ok"}, TRUE, TRUE, Quiet) :
      ow \in BOOLEAN, ks \in BOOLEAN, dry \in BOOLEAN, c \in {1, 2} }

\* Two tasks side by side with progress reports, retries and inputs that vanished.
InterleavedScenarios ==
  { Scenario([BaseOpts EXCEPT !.overwrite = ow, !.hasRetry = TRUE, !.retryAttempts = 2],
             Lists(2), {"ok", "missing"}, TRUE, FALSE,
             [Quiet EXCEPT !.progress = TRUE]) : ow \in BOOLEAN }

\* Trim strings, well-formed and malformed, over every candidate list.
TrimInputs ==
  { << >>, <<"5">>, <<"5", "-", "6">>, <<"x">>, <<"5", "-", "x">>, <<"x", "-", "5">>,
    <<"-", "x">>, <<"-", "5">>, <<"5", "-">> }

TrimScenarios ==
  { Scenario([BaseOpts EXCEPT !.trim = t], UNION { Lists(n) : n \in 0..MaxTasks },
             {"ok"}, FALSE, FALSE, Quiet) : t \in TrimInputs }

\* The same request made twice: what the first call leaves decides the second.
RerunScenarios ==
  { [ Scenario([BaseOpts EXCEPT !.dryRun = dry, !.keepStructure = ks],
               Lists(MaxTasks), {"ok", "missing"}, TRUE, FALSE,
               [Quiet EXCEPT !.partial = TRUE]) EXCEPT !.runs = 2 ] :
      dry \in BOOLEAN, ks \in BOOLEAN }

\* The loudness pass: every report pass 1 can end with.
LoudnormScenarios ==
  { Scenario([BaseOpts EXCEPT !.loudnorm = TRUE, !.overwrite = TRUE,
                              !.hasRetry = TRUE, !.retryAttempts = n],
             Lists(1), {"ok"}, FALSE, FALSE, [Quiet EXCEPT !.measure = Reports]) :
      n \in {1, 2} }

\* The tag keys the merge reads for a field, in the order it reads them.
Aliases(k) ==
  IF k = "title" THEN <<"title", "itl", "tracktitle">>
  ELSE IF k = "artist" THEN <<"artist", "album_artist", "author">>
  ELSE IF k = "date" THEN <<"date", "year">>
  ELSE IF k = "comment" THEN <<"comment", "description">>
  ELSE <<k>>

\* A layer holds no value, the empty string or a value that names the layer.
LayerValue(kind, name) ==
  IF kind = "absent" THEN Undefined ELSE IF kind = "empty" THEN Str("") ELSE Str(name)
LayerKinds == {"absent", "empty", "value"}

\* The probed tags that concern field k.
TagsFor(k) ==
  LET keys == { Aliases(k)[n] : n \in DOMAIN Aliases(k) }
  IN  { [j \in TagKeys |-> IF j \in keys THEN LayerValue(f[j], j) ELSE Undefined] :
        f \in [keys -> LayerKinds] }

\* The metadata merge: one field at a time, every combination of its layers.
MetaScenarios ==
  UNION { { Scenario([BaseOpts EXCEPT !.preferDetected = pd,
                                      !.metadata = [NoMetadata EXCEPT ![k] = LayerValue(u, "user")]],
                     { << Cand(1, b) >> }, {"ok"}, FALSE, FALSE,
                     [Quiet EXCEPT !.tags = tg, !.probe = {"tags", "throw"},
                                   !.encode = {"end"}]) :
            pd \in BOOLEAN, u \in LayerKinds, tg \in TagsFor(k),
            b \in IF k \in {"title", "artist"} THEN {"a", "x - y"} ELSE {"a"} } :
          k \in MetaKeys }

\* The metadata merge with autoMeta off, under a file name that holds an artist and a
\* title.
AutoMetaOffScenarios ==
  UNION { { Scenario([BaseOpts EXCEPT !.autoMeta = FALSE, !.preferDetected = pd,
                                      !.metadata = [NoMetadata EXCEPT ![k] = LayerValue(u, "user")]],
                     { << Cand(1, "x - y") >> }, {"ok"}, FALSE, FALSE,
                     [Quiet EXCEPT !.tags = tg, !.probe = {"tags", "throw"},
                                   !.encode = {"end"}]) :
            pd \in BOOLEAN, u \in LayerKinds, tg \in TagsFor(k) } :
          k \in {"title", "album"} }

\* autoCover: { enabled: false }, with and without a user cover, an attached picture
\* and a frame the extraction can write.
AutoCoverOffScenarios ==
  { Scenario([BaseOpts EXCEPT !.autoCoverEnabled = FALSE, !.userCover = uc, !.overwrite = TRUE],
             Lists(1), {"ok"}, FALSE, FALSE,
             [Quiet EXCEPT !.probe = {"error", "tags", "pic"}, !.extract = {"file", "error"},
                           !.encode = {"end"}]) :
      uc \in BOOLEAN }

\* The longest rule list of the scenarios.
MaxRules == 2

\* Patterns against the base name "a": its own spelling, its upper-case spelling,
\* another name, and a text that is no regular expression.
FramePatterns ==
  { Pat("a", TRUE, {"a"}, {"a"}), Pat("A", TRUE, {"A"}, {"a", "A"}),
    Pat("b", TRUE, {"b"}, {"b"}), Pat("(", FALSE, {}, {}) }

\* Rule lists; the rule at position n asks for n seconds.
RuleLists ==
  UNION { { [n \in 1..len |-> [pattern |-> p[n], timeSec |-> n]] : p \in [1..len -> FramePatterns] } :
          len \in 0..MaxRules }

\* The timestamp of the fallback frame.
FrameScenarios ==
  { Scenario([BaseOpts EXCEPT !.coverFrameSec = cfs, !.autoCoverTimeSec = act,
                              !.coverFrameRules = rl],
             { << Cand(1, "a") >> }, {"ok"}, FALSE, FALSE,
             [Quiet EXCEPT !.encode = {"end"}]) :
      cfs \in {Undef, Num(7)}, act \in {Undef, Num(9)}, rl \in RuleLists }

\* Templates: the default spelled out, one without an extension, one with two
\* dots, one with a token the code does not know, one that names a token twice.
Templates ==
  { << >>,
    <<"{basename}", ".", "mp3">>,
    <<"{basename}", "_", "{bitrate}", "k">>,
    <<"{basename}", ".", "{ext}", ".", "wav">>,
    <<"{title}", "-", "{vbr}", "{basename}">>,
    <<"{basename}", "-", "{basename}", ".", "mp3">> }

\* The output path for every template, format and name.
TemplateScenarios ==
  { Scenario([BaseOpts EXCEPT !.template = tp, !.format = fmt, !.keepStructure = ks,
                              !.bitrateKbps = br[1], !.vbrLevel = br[2]],
             { << Cand(1, b) >> }, {"ok"}, FALSE, FALSE,
             [Quiet EXCEPT !.encode = {"end"}]) :
      tp \in Templates, fmt \in {"none", "mp3", "aac", "flac", "wav"}, ks \in BOOLEAN,
      br \in {<<Undef, Undef>>, <<Num(192), Undef>>, <<Undef, Num(2)>>}, b \in {"a", "a.b"} }

\* The rate options and the trim option of one encode.
RateInputs == {Undef, Num(-1), Num(0), Num(4), Num(9), Num(10), Num(31), Num(32), Num(320)}

EncodeScenarios ==
  { Scenario([BaseOpts EXCEPT !.vbrLevel = v, !.bitrateKbps = b], { << Cand(1, "a") >> },
             {"ok"}, FALSE, FALSE, [Quiet EXCEPT !.encode = {"end"}]) :
      v \in RateInputs, b \in RateInputs }
  \cup
  { Scenario([BaseOpts EXCEPT !.trim = t], { << Cand(1, "a") >> },
             {"ok"}, FALSE, FALSE, [Quiet EXCEPT !.encode = {"end"}]) :
      t \in { <<"5", "-", "6", "5">>, <<"6", "5", "-", "5">>, <<"5", "-", "5">>,
              <<"6", "5">>, <<"-", "6">> } }

\* A controller made by createController (convert.ts:317-324): pause, resume and a
\* paused getter, and no isPaused method.
CreatedScenarios ==
  { Scenario([BaseOpts EXCEPT !.controller = TRUE, !.isPaused = FALSE, !.callbacks = cb],
             Lists(MaxTasks), {"ok"}, FALSE, FALSE, [Quiet EXCEPT !.encode = {"end"}]) :
      cb \in BOOLEAN }

Scenarios ==
  SchedScenarios \cup EventScenarios \cup PipelineScenarios \cup SharedScenarios
  \cup InterleavedScenarios \cup TrimScenarios \cup RerunScenarios \cup LoudnormScenarios
  \cup MetaScenarios \cup FrameScenarios
  \cup TemplateScenarios \cup EncodeScenarios \cup CreatedScenarios
  \cup AutoMetaOffScenarios \cup AutoCoverOffScenarios

InitOf(S) ==
  \E sc \in S :
    /\ opts = sc.opts
    /\ backend = sc.backend
    /\ candidates \in sc.cands
    /\ inputState \in [1..Len(candidates) -> sc.inputs]
    /\ fsOut \in IF sc.existing
                 THEN SUBSET { [dir |-> IF sc.opts.keepStructure THEN candidates[i].dir ELSE 0,
                                name |-> OutName(sc.opts, candidates[i]),
                                ext |-> ExtOut(sc.opts)] : i \in 1..Len(candidates) }
                 ELSE { {} }
    /\ unwritable \in IF sc.badDirs
                      THEN SUBSET ({ IF sc.opts.keepStructure THEN candidates[i].dir ELSE 0 :
                                     i \in 1..Len(candidates) }
                                   \ { p.dir : p \in fsOut })
                      ELSE { {} }
    /\ dirs = {}
    /\ run = [n |-> 1, of |-> sc.runs]
    /\ fs0 = fsOut
    /\ prev = << >>
    /\ inputs = [k \in 1..Len(candidates) |-> Literal(FileOf(candidates[k]))]
    /\ disk = [files |-> { FileOf(candidates[k]) : k \in 1..Len(candidates) }, folders |-> {}]
    /\ platform = "posix"
    /\ resolution = [direct |-> candidates, patterns |-> << >>, globbed |-> << >>,
                     all |-> candidates]
    /\ paused = FALSE
    /\ runState = "init"
    /\ runError = "none"
    /\ returned = << >>
    /\ idxCounter = 0
    /\ task = [i \in 1..Len(candidates) |-> NewTask]
    /\ detect = NoCall /\ queue = EmptyQueue /\ gui = Idle /\ preview = << >>
    /\ guessed = [i \in 1..Len(candidates) |-> DetectFromFilename(candidates[i].base)]
    /\ baseName = [i \in 1..Len(candidates) |-> OutName(opts, candidates[i])]

Init == InitOf(Scenarios)

Spec == Init /\ [][Next]_vars

\* The steps the program itself takes: the event loop runs every continuation that
\* is ready, and a backend call that was started returns.  The consumer's steps
\* (Pause, Resume, Rerun) are left to the consumer.
ProgramStep ==
  \/ Begin
  \/ Settle
  \/ \E i \in Tasks :
       \/ Admit(i) \/ Gate(i) \/ ThrottleElapsed(i) \/ ProbeReturn(i) \/ AttachedReturn(i)
       \/ FrameReturn(i) \/ MeasureReturn(i) \/ EncodeReturn(i) \/ RetryDelayElapsed(i)

FairSpec == Spec /\ WF_vars(ProgramStep)

\* ------------------------------------------------- input resolution alone
MaxInputs == 2       \* specifiers of an input list

\* The entries of the folder the specifiers point into.
FileA == File(1, "a", Ext(".mp4"))
FileB == File(1, "b", Cased(".mp3"))
FileT == File(1, "n", Ext(".txt"))
FileM == File(1, "[a]", Ext(".mp4"))
Folder == File(1, "d", NoExt)

\* Specifiers over them: plain and unnormalised spellings, a name that is also a
\* pattern, patterns, a negative pattern, a folder and the empty string.
EmptyString == [Specifier("", Folder, FALSE, TRUE, FALSE, FALSE, {}) EXCEPT !.empty = TRUE]
PosixSpecifiers ==
  { Literal(FileA), Literal(FileB), Literal(FileT), Literal(Folder), EmptyString,
    Specifier("./a.mp4", FileA, FALSE, FALSE, FALSE, FALSE, {}),
    Specifier("[a].mp4", FileM, FALSE, TRUE, TRUE, FALSE, {FileA}),
    Specifier("*.mp4", File(1, "*", Ext(".mp4")), FALSE, TRUE, TRUE, FALSE, {FileA, FileM}),
    Specifier("*", File(1, "*", NoExt), FALSE, TRUE, TRUE, FALSE,
              {FileA, FileB, FileT, FileM, Folder}),
    Specifier("!a.mp4", File(1, "!a", Ext(".mp4")), FALSE, TRUE, TRUE, TRUE, {FileA}) }
DriveSpecifiers ==
  { Specifier("C:\\m\\a.mp4", FileA, TRUE, TRUE, FALSE, FALSE, {}),
    Specifier("C:\\m\\.\\a.mp4", FileA, TRUE, FALSE, FALSE, FALSE, {}) }

\* One entry under every extension spelling, named plainly or matched by a pattern.
Spellings ==
  { Ext(x) : x \in VIDEO_EXTS \cup AUDIO_EXTS \cup {".txt", ".jpg", ".mp", ".mp4a", ""} }
  \cup { Cased(x) : x \in VIDEO_EXTS \cup AUDIO_EXTS \cup {".txt"} }
ExtInputs(e) ==
  { << Literal(File(2, "e", e)) >>,
    << Specifier("e.*", File(2, "e", Ext(".*")), FALSE, TRUE, TRUE, FALSE, {File(2, "e", e)}) >> }
ExtCalls ==
  UNION { { [inputs |-> ins, disk |-> [files |-> {File(2, "e", e)}, folders |-> {}],
             platform |-> "posix"] : ins \in ExtInputs(e) } : e \in Spellings }

SeqsUpTo(S, n) == UNION { [1..m -> S] : m \in 0..n }

FolderCalls ==
  { [inputs |-> ins, disk |-> [files |-> fs, folders |-> {Folder}], platform |-> plat] :
      plat \in {"posix", "win32"},
      fs \in SUBSET {FileA, FileB, FileT, FileM},
      ins \in SeqsUpTo(PosixSpecifiers \cup DriveSpecifiers, MaxInputs) }

ResolveInit ==
  /\ \E c \in ExtCalls \cup FolderCalls :
       /\ (c.platform = "posix" => \A k \in 1..Len(c.inputs) : ~c.inputs[k].asIs)
       /\ inputs = c.inputs /\ disk = c.disk /\ platform = c.platform
  /\ resolution = NoResolution
  /\ candidates = << >>
  /\ runState = "called"
  /\ opts = BaseOpts /\ backend = Quiet
  /\ inputState = << >> /\ task = << >> /\ prev = << >> /\ returned = << >>
  /\ unwritable = {} /\ fsOut = {} /\ fs0 = {} /\ dirs = {}
  /\ paused = FALSE /\ runError = "none" /\ idxCounter = 0
  /\ run = [n |-> 1, of |-> 1]
  /\ detect = NoCall /\ queue = EmptyQueue /\ gui = Idle /\ preview = << >>
  /\ guessed = << >>
  /\ baseName = << >>

ResolveSpec == ResolveInit /\ [][Resolve]_vars


\* ================================================================ claims
Starts(ev) == { k \in 1..Len(ev) : ev[k].type = "start" }
Dones(ev) == { k \in 1..Len(ev) : ev[k].type = "done" }
Progs(ev) == { k \in 1..Len(ev) : ev[k].type = "progress" }
Called(i, op) == \E k \in 1..Len(task[i].calls) : task[i].calls[k] = op
MediaOps == {"ffprobe", "extractAttachedPicture", "extractFrame", "measureLoudness", "encode"}

\* C1: the limit the claim states: min(64, max(1, requested or floor(cpus/2))),
\* capped to 1 under throttle 'low' and to 2 under 'medium'.
ClaimLimit(o) ==
  LET req == IF o.hasConcurrency THEN o.concurrency ELSE Cpus \div 2
      base == Min(64, Max(1, req))
  IN  IF o.throttle = "low" THEN Min(base, 1)
      ELSE IF o.throttle = "medium" THEN Min(base, 2)
      ELSE base

\* C1: in every reachable state the tasks admitted by the limiter that have not
\* returned (at the pause gate, in a delay or in a backend call) number at most L,
\* and L is the limit the limiter was created with.
C1_InFlightAtMostLimit ==
  /\ Cardinality(InFlight) <= ClaimLimit(opts)
  /\ Concurrency(opts) = ClaimLimit(opts)

\* C1 witness: concurrency=4 with throttle 'low': one task waits in its retry delay
\* and the next one is still queued.
C1_Witness ==
  /\ opts.hasConcurrency /\ opts.concurrency = 4 /\ opts.throttle = "low"
  /\ \E i \in Tasks : task[i].pc = "retryDelay"
  /\ \E j \in Tasks : task[j].pc = "queued"

\* C2: with callbacks supplied every task has at most one start event, its progress
\* events lie after the start and before the done event, and once terminal it has
\* emitted exactly one done event, which is its last event.
C2_EventLifecycle ==
  opts.callbacks =>
    \A i \in Tasks :
      LET ev == task[i].events IN
        /\ Cardinality(Starts(ev)) <= 1
        /\ \A k \in Progs(ev) : (\E j \in Starts(ev) : j < k) /\ (\A j \in Dones(ev) : k < j)
        /\ Cardinality(Dones(ev)) <= 1
        /\ \A k \in Dones(ev) : k = Len(ev)
        /\ task[i].pc = "done" => Cardinality(Dones(ev)) = 1

\* C3: the percent values of one task's progress events are non-decreasing and lie
\* in [1,99], over all attempts.
C3_ProgressClampedMonotone ==
  \A i \in Tasks :
    LET ev == task[i].events IN
      /\ \A k \in Progs(ev) : ev[k].n >= ClampLo /\ ev[k].n <= ClampHi
      /\ \A k, l \in Progs(ev) : k < l => ev[k].n <= ev[l].n

\* C4: no two tasks are at once inside an encode that writes the same output path.
C4_NoConcurrentSameOutput ==
  \A i, j \in Tasks :
    (i # j /\ task[i].pc = "encode" /\ task[j].pc = "encode") => OutPath(i) # OutPath(j)

\* C5: once a task is terminal, no temporary cover file of its pipeline exists.
C5_TempCoverRemoved ==
  \A i \in Tasks : task[i].pc = "done" => task[i].tmpFiles = {}

\* C6: a task whose input is missing or empty (not skipped, not dry-run) ends with
\* ok=false and a message telling empty from missing, and no operation that reads
\* the media was invoked for it.
C6_BadInputFailsFast ==
  \A i \in Tasks :
    (inputState[i] # "ok" /\ task[i].pc = "done" /\ ~opts.dryRun
       /\ ~(~opts.overwrite /\ task[i].sawOutput)) =>
      /\ ~task[i].result.ok
      /\ task[i].result.error = (IF inputState[i] = "empty" THEN "empty" ELSE "notFound")
      /\ \A op \in MediaOps : ~Called(i, op)

\* C7: a failure at a step of one task body never makes the run fail: the promise
\* of convertPaths is not rejected because of a task, and no task ends without a result.
C7_TaskFailureIsolated ==
  /\ runState = "rejected" => runError = "trim"
  /\ \A i \in Tasks : task[i].pc # "rejected"

\* C8: convertPaths resolves only when every task is terminal, with one result per
\* candidate in candidate order, the i-th being the i-th task's result for the i-th
\* candidate.
C8_ResolvedWithAllResults ==
  runState = "resolved" =>
    /\ \A i \in Tasks : task[i].pc = "done"
    /\ Len(returned) = Len(candidates)
    /\ \A i \in Tasks :
         /\ returned[i].set
         /\ returned[i].input = candidates[i]
         /\ returned[i] = task[i].result

\* C8 witness: a run of two candidates resolved, one failed and one succeeded.
C8_Witness ==
  /\ runState = "resolved"
  /\ Len(candidates) = 2
  /\ ~returned[1].ok /\ returned[2].ok

\* C9: what the claim calls malformed: a non-numeric start, or a non-numeric end
\* after the dash.
ClaimMalformed(trim) ==
  LET dash == { k \in 1..Len(trim) : trim[k] = "-" }
      first == IF dash = {} THEN Len(trim) + 1 ELSE CHOOSE k \in dash : \A j \in dash : k <= j
      rest == { k \in dash : k > first }
      second == IF rest = {} THEN Len(trim) + 1 ELSE CHOOSE k \in rest : \A j \in rest : k <= j
  IN  \/ \E k \in 1..(first - 1) : trim[k] = "x"
      \/ \E k \in (first + 1)..(second - 1) : trim[k] = "x"

\* C9: a malformed trim string makes convertPaths fail with the invalid-trim error
\* before any task exists: nothing is returned, started, called or created.
C9_MalformedTrimRejects ==
  (ClaimMalformed(opts.trim) /\ runState \notin {"called", "init"}) =>
    /\ runState = "rejected" /\ runError = "trim"
    /\ returned = << >>
    /\ dirs = {}
    /\ \A i \in Tasks : task[i].pc = "none" /\ task[i].events = << >> /\ task[i].calls = << >>

\* C10: if overwrite is not set and the output exists when the task checks it, the
\* task's result is ok=true with that output path and the task invokes no backend
\* operation (so it never writes the output).
C10_SkipExistingOutput ==
  \A i \in Tasks :
    (~opts.overwrite /\ task[i].sawOutput) =>
      /\ task[i].pc = "done"
      /\ task[i].result.set /\ task[i].result.ok
      /\ task[i].result.output = OutPath(i)
      /\ task[i].calls = << >>

\* C10 witness: the second task skips the output the first task of this run wrote.
C10_Witness ==
  \E i, j \in Tasks :
    /\ i # j
    /\ ~opts.overwrite /\ task[i].sawOutput /\ task[i].pc = "done"
    /\ Called(j, "encode") /\ task[j].result.ok /\ OutPath(j) = OutPath(i)

\* A task that took the skip path (convert.ts:187-189).
Skipped(i) == ~opts.overwrite /\ task[i].sawOutput

ClaimAttempts(o) == IF o.hasRetry THEN Max(1, o.retryAttempts) ELSE 1

C14_PausedStep ==
  IsPaused =>
    \A i \in Tasks :
      task[i].pc = "gate" =>
        /\ task'[i] = task[i]
        /\ i \in InFlight
        /\ Cardinality(InFlight) >= Concurrency(opts) =>
             \A j \in Tasks : task[j].pc = "queued" => task'[j].pc = "queued"

\* C14: a task that has passed the gate can take its next step while paused.
C14_PastGateRuns ==
  paused =>
    \A i \in Tasks :
      /\ task[i].pc = "throttle" => ENABLED ThrottleElapsed(i)
      /\ task[i].pc = "probe" => ENABLED ProbeReturn(i)
      /\ task[i].pc = "attached" => ENABLED AttachedReturn(i)
      /\ task[i].pc = "frame" => ENABLED FrameReturn(i)
      /\ task[i].pc = "measure" => ENABLED MeasureReturn(i)
      /\ task[i].pc = "encode" => ENABLED EncodeReturn(i)
      /\ task[i].pc = "retryDelay" => ENABLED RetryDelayElapsed(i)

\* C14: while the controller reports paused a task at the pause gate invokes no
\* backend operation and does not end, it keeps its slot, and it goes on once the
\* gate opens; a task past the gate is not held by a later pause.
C14_PauseGate == [][C14_PausedStep]_vars /\ []C14_PastGateRuns

\* C14 witness: the controller reports paused while one task waits at the gate and
\* another, which passed the gate before, is inside its encode.
C14_Witness ==
  /\ IsPaused
  /\ \E i, j \in Tasks : task[i].pc = "gate" /\ task[j].pc = "encode"

\* C15: for a well-formed trim option: if the controller is eventually never paused
\* again (and every backend call returns, which FairSpec states), every task
\* eventually has its result and convertPaths resolves.
C15_EventuallyResolves ==
  (~TrimThrows(opts.trim)) =>
    ((<>[](~paused)) => <>(runState = "resolved" /\ \A i \in Tasks : task[i].pc = "done"))

\* C16: the stage of the pipeline a call belongs to.
Stage(op) ==
  IF op \in {"probeTags", "ffprobe"} THEN 1
  ELSE IF op = "extractAttachedPicture" THEN 2
  ELSE IF op = "extractFrame" THEN 3
  ELSE 4

\* C16: the call a task is waiting for, given where it stands.
Pending(pc) ==
  IF pc = "probe" THEN {"probeTags", "ffprobe"}
  ELSE IF pc = "attached" THEN {"extractAttachedPicture"}
  ELSE IF pc = "frame" THEN {"extractFrame"}
  ELSE IF pc = "measure" THEN {"measureLoudness"}
  ELSE IF pc = "encode" THEN {"encode"}
  ELSE {}

\* C16: the calls of one task come in the order probe, attached picture, frame,
\* then per attempt pass 1 (only with loudnorm) and the encode; the probe and each
\* extraction happen at most once; an encode follows its attempt's pass 1 directly
\* with loudnorm and there is no pass 1 without it; and the only call a task can be
\* waiting for is the last one it made, so no two of its calls overlap.
C16_StagesInOrder ==
  \A i \in Tasks :
    LET c == task[i].calls IN
      /\ \A k, l \in 1..Len(c) : k < l => Stage(c[k]) <= Stage(c[l])
      /\ \A op \in {"probeTags", "ffprobe", "extractAttachedPicture", "extractFrame"} :
           Cardinality({ k \in 1..Len(c) : c[k] = op }) <= 1
      /\ \A k \in 1..Len(c) :
           /\ c[k] = "measureLoudness" => (opts.loudnorm /\ k > 1 /\ c[k-1] = "toMp3")
           /\ c[k] = "encode" =>
                (k > 1 /\ c[k-1] = (IF opts.loudnorm THEN "measureLoudness" ELSE "toMp3"))
           /\ (c[k] \in {"measureLoudness", "encode"} /\ k < Len(c)) => c[k+1] \in {"encode", "toMp3"}
      /\ Pending(task[i].pc) # {} => (c # << >> /\ c[Len(c)] \in Pending(task[i].pc))

\* C16 witness: every stage ran: the probe found an attached picture, its extraction
\* gave no file, the frame was extracted, the first attempt failed in pass 1 and the
\* second attempt is inside its encode.
C16_Witness ==
  \E i \in Tasks :
    /\ task[i].pc = "encode"
    /\ task[i].calls = << "probeTags", "ffprobe", "extractAttachedPicture", "extractFrame",
                           "toMp3", "measureLoudness", "toMp3", "measureLoudness", "encode" >>

\* C17: the fallback values the claim states, in tenths.
ClaimFallback ==
  [measured_I |-> -160, measured_TP |-> -15, measured_LRA |-> 110, measured_thresh |-> -260]

\* C17: with loudnorm on, once pass 1 has ended, pass 2 runs with, for each of the
\* four statistics on its own, the parsed value when the report parsed and holds
\* it, and the stated fallback otherwise (all four fallbacks when the report did not
\* parse); the attempt then fails only if the encode itself fails.
C17_LoudnormFallback ==
  \A i \in Tasks :
    (opts.loudnorm /\ task[i].report.k = "end") =>
      LET r == task[i].report
          a == task[i].attempts
      IN  /\ \A k \in LoudKeys :
               task[i].filter[k] = IF r.json /\ r.stats[k] # Undef THEN r.stats[k]
                                   ELSE Num(ClaimFallback[k])
          /\ \/ task[i].pc = "encode" /\ Len(a) = task[i].made - 1
             \/ Len(a) = task[i].made /\ a[Len(a)] \in {"ok", "ffmpeg"}

\* C17 witness: the report of pass 1 did not parse, pass 2 ran with the four
\* fallback values and the task succeeded.
C17_Witness ==
  \E i \in Tasks :
    /\ opts.loudnorm /\ task[i].report = Garbled
    /\ task[i].pc = "done" /\ task[i].result.ok
    /\ task[i].filter = [k \in LoudKeys |-> Num(ClaimFallback[k])]

\* The elements of a list.
Range(list) == { list[k] : k \in 1..Len(list) }

\* C18: once the inputs are resolved no file system entry is named by two
\* candidates, so no input gets two tasks.
C18_EachInputOnce ==
  runState = "init" =>
    \A i, j \in 1..Len(candidates) :
      FileOf(candidates[i]) = FileOf(candidates[j]) => i = j

\* C19: the allow-list the claim states.
ClaimExts ==
  {".mp4", ".mov", ".mkv", ".avi", ".webm", ".flv", ".wmv", ".m4v", ".3gp",
   ".mp3", ".wav", ".m4a", ".aac", ".flac", ".ogg", ".opus", ".wma"}

ClaimClass(inp) ==
  IF ~inp.empty /\ inp.file \in disk.files THEN "literal"
  ELSE IF ~inp.empty /\ inp.meta THEN "pattern"
  ELSE "dropped"

\* C20: the specifiers that name an existing regular file, and only they, are taken
\* as literal paths, metacharacters or not, and are not expanded; of the others
\* those with a metacharacter, and only they, are expanded as patterns; every
\* candidate is such a literal path or an existing file matched by such a pattern;
\* specifiers that name nothing or match nothing add nothing, and no error is raised.
C20_Classification ==
  runState \in {"init", "rejected"} =>
    LET lits == { k \in 1..Len(inputs) : ClaimClass(inputs[k]) = "literal" }
        pats == { k \in 1..Len(inputs) : ClaimClass(inputs[k]) = "pattern" }
    IN  /\ runState = "init" /\ runError = "none"
        /\ Len(resolution.direct) = Cardinality(lits)
        /\ { FileOf(path) : path \in Range(resolution.direct) } = { inputs[k].file : k \in lits }
        /\ Range(resolution.patterns) = { inputs[k] : k \in pats }
        /\ \A path \in Range(candidates) :
             \/ \E k \in lits : FileOf(path) = inputs[k].file
             \/ \E k \in pats : FileOf(path) \in inputs[k].matches \cap disk.files
        /\ \A k \in lits :
             IsMediaLike(inputs[k].file) => inputs[k].file \in { FileOf(path) : path \in Range(candidates) }
        /\ \A k \in pats : \A f \in inputs[k].matches \cap disk.files :
             (~inputs[k].neg /\ IsMediaLike(f) /\ \A j \in pats : ~inputs[j].neg) =>
               f \in { FileOf(path) : path \in Range(candidates) }

\* C20 witness: the specifier "[a].mp4" names an existing file and would match
\* a.mp4 as a pattern; a.mp4 exists and is not a candidate.
C20_Witness ==
  /\ runState = "init"
  /\ \E k \in 1..Len(inputs) : inputs[k].meta /\ inputs[k].file = FileM
  /\ FileA \in disk.files
  /\ candidates = << Path(FileM, "n") >>

\* ------------------------------------------------------ filename detection
\* The longest base name of which every spelling is tried.
MaxName == 3

Alphabet == {"x", "by", "hd", "official", "video", " ", "-", "_", "(", ")", "."}

\* Every token sequence up to MaxName in which no two words are adjacent.
ShortNames ==
  UNION { { s \in [1..n -> Alphabet] :
              \A k \in 1..(n - 1) : ~(IsWord(s[k]) /\ IsWord(s[k + 1])) } : n \in 0..MaxName }

\* Names of artists and titles: plain ones, one with a hyphen inside, and ones that
\* hold the separator of a later pattern.
PlainNames == { <<"x">>, <<"Daft", " ", "Punk">>, <<"One", " ", "More", " ", "Time">> }
HyphenNames == { <<"Jay", "-", "Z">> }
ByNames == { <<"x", " ", "by", " ", "y">> }
UnderNames == { <<"x", "_", "y">> }

\* A name as a file carries it: with an annotation after or before it, with a noise
\* word, with an annotation in its middle, or with blanks doubled.
Decorations == {"none", "after", "before", "noise", "pair", "blanks"}
Decorated(name, d) ==
  IF d = "after" THEN name \o <<" ", "(", "Official", " ", "Video", ")">>
  ELSE IF d = "before" THEN <<"(", "x", ".", "y", ")", " ">> \o name
  ELSE IF d = "noise" THEN name \o <<" ", "HD">>
  ELSE IF d = "pair" THEN <<"Official", " ", " ", "Video", " ">> \o name
  ELSE IF d = "blanks" THEN <<" ">> \o name \o <<" ", " ">>
  ELSE name

Separators == { <<" ", "-", " ">>, <<"-">>, <<" ", "by", " ">>, <<" ", "By", " ", " ">>,
                <<" ", "_", " ">>, <<"_">> }
FormOf(sep) ==
  IF \E n \in DOMAIN sep : sep[n] = "-" THEN "dash"
  ELSE IF \E n \in DOMAIN sep : sep[n] = "_" THEN "under"
  ELSE "by"

\* The names a form allows on its two sides: a separator of a later pattern may
\* occur in them, and with the dash the artist may hold a hyphen.
LeftNames(form) ==
  IF form = "dash" THEN PlainNames \cup HyphenNames \cup ByNames \cup UnderNames
  ELSE IF form = "by" THEN PlainNames \cup UnderNames
  ELSE PlainNames
RightNames(form) ==
  IF form = "dash" THEN PlainNames \cup ByNames \cup UnderNames
  ELSE IF form = "by" THEN PlainNames \cup UnderNames
  ELSE PlainNames

\* A decoration that puts a word next to an underscore is left out: there the word
\* is no noise to the code.
Fits(sep, dl) == ~(sep = <<"_">> /\ dl = "noise")

FormCalls ==
  UNION { { [state |-> "called", guess |-> NoGuess, form |-> FormOf(sep),
             left |-> l, right |-> r,
             base |-> Decorated(l, dl) \o sep \o Decorated(r, dr)] :
            l \in LeftNames(FormOf(sep)), r \in RightNames(FormOf(sep)),
            dl \in { d \in Decorations : Fits(sep, d) }, dr \in Decorations } :
          sep \in Separators }

ShortCalls ==
  { [state |-> "called", guess |-> NoGuess, form |-> "any", left |-> << >>, right |-> << >>,
     base |-> s] : s \in ShortNames }

DetectInit ==
  /\ detect \in FormCalls \cup ShortCalls
  /\ queue = EmptyQueue /\ gui = Idle /\ preview = << >>
  /\ guessed = << >>
  /\ baseName = << >>
  /\ inputs = << >> /\ disk = [files |-> {}, folders |-> {}] /\ platform = "posix"
  /\ resolution = NoResolution
  /\ candidates = << >>
  /\ runState = "init"
  /\ opts = BaseOpts /\ backend = Quiet
  /\ inputState = << >> /\ task = << >> /\ prev = << >> /\ returned = << >>
  /\ unwritable = {} /\ fsOut = {} /\ fs0 = {} /\ dirs = {}
  /\ paused = FALSE /\ runError = "none" /\ idxCounter = 0
  /\ run = [n |-> 1, of |-> 1]

DetectSpec == DetectInit /\ [][Detect]_vars

\* ------------------------------------------------------- the resume queue
QueueInit ==
  /\ queue = EmptyQueue /\ gui = Idle /\ preview = << >>
  /\ guessed = << >>
  /\ baseName = << >>
  /\ detect = NoCall
  /\ inputs = << >> /\ disk = [files |-> {}, folders |-> {}] /\ platform = "posix"
  /\ resolution = NoResolution
  /\ candidates = << >>
  /\ runState = "init"
  /\ opts = BaseOpts /\ backend = Quiet
  /\ inputState = << >> /\ task = << >> /\ prev = << >> /\ returned = << >>
  /\ unwritable = {} /\ fsOut = {} /\ fs0 = {} /\ dirs = {}
  /\ paused = FALSE /\ runError = "none" /\ idxCounter = 0
  /\ run = [n |-> 1, of |-> 1]

QueueNext ==
  \/ \E ins \in SeqsUpTo(QueuePaths, MaxInputs) \ {<< >>}, ow \in BOOLEAN : StartConvert(ins, ow)
  \/ \E p \in QueuePaths, ok \in BOOLEAN : FileDone(p, ok)
  \/ \E p \in QueuePaths : FileSkipped(p)
  \/ HandlerReturn

QueueSpec == QueueInit /\ [][QueueNext]_vars

\* ------------------------------------------------------- the output preview
\* Templates, formats and rates for the preview and the run of one request, all
\* outputs going into the output directory itself.
PreviewScenarios ==
  { Scenario([BaseOpts EXCEPT !.template = tp, !.format = fmt,
                              !.bitrateKbps = br[1], !.vbrLevel = br[2]],
             { << Cand(1, b) >> }, {"ok"}, FALSE, FALSE,
             [Quiet EXCEPT !.encode = {"end"}]) :
      tp \in Templates, fmt \in {"none", "mp3", "aac", "flac", "wav"},
      br \in {<<Undef, Undef>>, <<Num(192), Undef>>, <<Undef, Num(2)>>, <<Undef, Num(0)>>},
      b \in {"a", "a.b"} }

PreviewInit == InitOf(PreviewScenarios)

\* The preview, and the steps the run of such a request takes.
PreviewNext ==
  \/ PreviewOutput
  \/ Begin
  \/ Settle
  \/ \E i \in Tasks : Admit(i)
  \/ \E i \in Tasks : Gate(i)
  \/ \E i \in Tasks : ProbeReturn(i)
  \/ \E i \in Tasks : FrameReturn(i)
  \/ \E i \in Tasks : EncodeReturn(i)

PreviewSpec == PreviewInit /\ [][PreviewNext]_vars

\* ------------------------------------------------------------------- C21
\* C21: when the candidate list is empty, convertPaths resolves with the empty list
\* and does not reject, whatever the other options are (a malformed trim included);
\* no task exists, so there is no event and no backend call, no directory is
\* created, no output is written and no index is handed out.
C21_EmptyCandidates ==
  (Len(candidates) = 0 /\ runState \notin {"called", "init"}) =>
    /\ runState = "resolved"
    /\ runError = "none"
    /\ returned = << >>
    /\ DOMAIN task = {}
    /\ dirs = {}
    /\ fsOut = fs0
    /\ idxCounter = 0

\* An empty run has returned although its trim option is one parseTrim throws on.
C21_Witness ==
  /\ Len(candidates) = 0
  /\ runState = "resolved"
  /\ TrimThrows(opts.trim)

\* ------------------------------------------------------------------- C22
\* A layer's value is present when it is a non-empty string.
Present(v) == v.def /\ v.s # ""

\* The first present value of a list, or the fallback.
FirstPresent(list, fallback) ==
  LET hits == { n \in DOMAIN list : Present(list[n]) }
  IN  IF hits = {} THEN fallback
      ELSE list[CHOOSE n \in hits : \A m \in hits : n <= m]

\* The claim's detected value: the probed tag through its aliases, else the value
\* the filename heuristic gives (it gives a title and an artist only).
ClaimDetected(i, k) ==
  FirstPresent([n \in DOMAIN Aliases(k) |-> task[i].autoTags[Aliases(k)[n]]],
               IF k \in {"title", "artist"} /\ opts.autoMeta
               THEN DetectFromFilename(candidates[i].base)[k] ELSE Undefined)

\* The claim's merged value.
ClaimMerged(i, k) ==
  LET d == ClaimDetected(i, k)
      u == opts.metadata[k]
  IN  IF opts.preferDetected THEN (IF Present(d) THEN d ELSE u)
      ELSE (IF Present(u) THEN u ELSE d)

\* The value is the one the claim names, and a field the claim leaves empty is empty.
SameValue(claimed, passed) == IF Present(claimed) THEN passed = claimed ELSE ~Present(passed)

EncoderCalled(i) == \E n \in DOMAIN task[i].calls : task[i].calls[n] = "toMp3"

\* C22: for each of the seven fields the metadata passed to the encoder is, with
\* preferDetected, the detected value if present else the user override, and
\* without it the user override if present else the detected value; the detected
\* value is the probed tag (through its aliases) if present, else the filename
\* heuristic's value; a field absent at every layer stays empty.
C22_MergedByPrecedence ==
  \A i \in Tasks : EncoderCalled(i) =>
    \A k \in MetaKeys : SameValue(ClaimMerged(i, k), task[i].metadata[k])

\* No layer of the run holds an empty string.
NoEmptyLayer ==
  /\ \A k \in MetaKeys : opts.metadata[k] # Str("")
  /\ \A j \in TagKeys : backend.tags[j] # Str("")

\* The same statement for the runs in which every layer is absent or non-empty.
C22_MergedWithoutEmptyStrings ==
  NoEmptyLayer => C22_MergedByPrecedence

\* ------------------------------------------------------------------- C23
\* C23: with a user-supplied cover path, every call of the encoder, in every
\* attempt of every task, is handed that path as the cover; extractAttachedPicture
\* and extractFrame are never called; and the run deletes nothing at all, so not
\* the user's file, whether the task succeeds or fails.
C23_UserCoverKept ==
  opts.userCover =>
    \A i \in Tasks :
      /\ \A n \in DOMAIN task[i].covers : task[i].covers[n] = "user"
      /\ Len(task[i].covers) = Cardinality({ n \in DOMAIN task[i].calls : task[i].calls[n] = "toMp3" })
      /\ ~Called(i, "extractAttachedPicture")
      /\ ~Called(i, "extractFrame")
      /\ task[i].tempCover = "none"
      /\ task[i].unlinked = {}

\* A task with a user cover has failed after ffprobe ran and the encoder was
\* called twice.
C23_Witness ==
  /\ opts.userCover
  /\ \E i \in Tasks :
       /\ task[i].pc = "done"
       /\ ~task[i].result.ok
       /\ Len(task[i].covers) = 2
       /\ Called(i, "ffprobe")

ClaimTSec(o, base) ==
  LET rules == o.coverFrameRules
      hits == { n \in DOMAIN rules : rules[n].pattern.valid /\ base \in rules[n].pattern.folded }
  IN  IF hits # {} THEN rules[CHOOSE n \in hits : \A m \in hits : n <= m].timeSec
      ELSE IF o.coverFrameSec # Undef THEN o.coverFrameSec.v
      ELSE IF o.autoCoverTimeSec # Undef THEN o.autoCoverTimeSec.v
      ELSE 5

\* C25: the timestamp passed to extractFrame is the timeSec of the first rule, in
\* list order, whose pattern matches the base name case-insensitively (a pattern
\* that is no valid regex is skipped); when no rule matches, the configured default
\* (coverFrameSec, else autoCover.timeSec), else 5.
C25_FrameTimestamp ==
  \A i \in Tasks : Called(i, "extractFrame") =>
    task[i].tSec = Num(ClaimTSec(opts, candidates[i].base))

\* A frame was extracted at the time of the second rule, which matches only when
\* case is ignored, after a first rule whose pattern is no valid regex.
C25_Witness ==
  \E i \in Tasks :
    /\ Called(i, "extractFrame")
    /\ Len(opts.coverFrameRules) = 2
    /\ ~opts.coverFrameRules[1].pattern.valid
    /\ candidates[i].base \notin opts.coverFrameRules[2].pattern.same
    /\ task[i].tSec = Num(opts.coverFrameRules[2].timeSec)

\* ------------------------------------------------------------------- C26
ReplaceEvery(s, tok, val) ==
  LET RECURSIVE every(_)
      every(r) == IF r = << >> THEN << >>
                  ELSE (IF Head(r) = tok THEN val ELSE <<Head(r)>>) \o every(Tail(r))
  IN  every(s)

\* The four tokens of the claim and what each stands for.
ClaimTokens(o, cand) ==
  [ basename |-> Atoms(cand.base), ext |-> ExtWord(cand.ext),
    bitrate |-> NumberString(o.bitrateKbps), vbr |-> NumberString(o.vbrLevel) ]

\* The file name the claim states: the template with the four tokens substituted,
\* its extension stripped.
ClaimName(o, cand) ==
  LET v == ClaimTokens(o, cand)
      tpl == IF o.template = << >> THEN <<"{basename}", ".", "mp3">> ELSE o.template
  IN  StripExt(ReplaceEvery(ReplaceEvery(ReplaceEvery(ReplaceEvery(tpl,
        "{basename}", v.basename), "{ext}", v.ext), "{bitrate}", v.bitrate), "{vbr}", v.vbr))

ClaimExt(o) ==
  IF o.format = "none" THEN ".mp3" ELSE IF o.format = "aac" THEN ".m4a" ELSE "." \o o.format

\* C26: the output path of every task is the directory (the output root, or with
\* keepStructure the root joined with the input's relative directory) plus the
\* template with {basename}, {ext}, {bitrate}, {vbr} substituted, its extension
\* stripped, plus the format's extension; the default template gives the base name
\* plus the extension; other tokens stay literal.
C26_OutputPath ==
  \A i \in Tasks : task[i].result.set =>
    LET out == task[i].result.output
    IN  /\ out.dir = IF opts.keepStructure THEN candidates[i].dir ELSE 0
        /\ out.name = ClaimName(opts, candidates[i])
        /\ out.ext = ClaimExt(opts)
        /\ opts.template = << >> => out.name = Atoms(candidates[i].base)

\* No token occurs twice in the template.
TokensOnce ==
  \A tok \in {"{basename}", "{ext}", "{bitrate}", "{vbr}"} :
    Cardinality({ n \in DOMAIN opts.template : opts.template[n] = tok }) <= 1

\* The same statement for the templates that name no token twice.
C26_OutputPathTokensOnce == TokensOnce => C26_OutputPath

\* ------------------------------------------------------------------- C27
\* The encoder the claim names for an output extension.
ClaimEncoder(ext) ==
  IF ext \in {".m4a", ".aac"} THEN "toAac"
  ELSE IF ext = ".flac" THEN "toFlac"
  ELSE IF ext = ".ogg" THEN "toOgg"
  ELSE IF ext = ".opus" THEN "toOpus"
  ELSE "toMp3"

C27_Mp3ByExtension ==
  \A i \in Tasks :
    (task[i].made >= 1 /\ ClaimEncoder(ExtOut(opts)) = "toMp3") => Called(i, "toMp3")

\* ------------------------------------------------------------------- C28
\* The rate selector the claim states.
ClaimRate(vbrLevel, bitrateKbps) ==
  IF vbrLevel # Undef
  THEN [kind |-> "quality",
        v |-> IF vbrLevel.v < 0 THEN 0 ELSE IF vbrLevel.v > 9 THEN 9 ELSE vbrLevel.v]
  ELSE IF bitrateKbps # Undef
  THEN [kind |-> "bitrate", v |-> IF bitrateKbps.v < 32 THEN 32 ELSE bitrateKbps.v]
  ELSE [kind |-> "bitrate", v |-> 192]

\* C28: the MP3 encode is given one rate selector: with a numeric vbrLevel the VBR
\* quality min(9, max(0, vbrLevel)), whatever the bitrate is; otherwise with a
\* numeric bitrateKbps the bitrate max(32, bitrateKbps); otherwise 192 kbps.
C28_RateSelector ==
  \A i \in Tasks : Called(i, "encode") =>
    task[i].rate = ClaimRate(opts.vbrLevel, opts.bitrateKbps)

\* An encode ran with both options given, a vbrLevel above 9 and a bitrate below 32.
C28_Witness ==
  \E i \in Tasks :
    /\ Called(i, "encode")
    /\ opts.vbrLevel = Num(10)
    /\ opts.bitrateKbps = Num(31)
    /\ task[i].rate = Rate("quality", 9)

\* ------------------------------------------------------------------- C29
\* The trim string is a number: digits only.
IsNumber(s) == s # << >> /\ \A k \in DOMAIN s : s[k] \in {"5", "6"}

\* The positions of the dashes of the trim string.
Dashes(s) == { k \in DOMAIN s : s[k] = "-" }

\* C29: a trim 'a-b' with numbers a and b gives start a, end b and an encode that
\* starts at a and lasts max(0, b-a); a trim 'a' gives start a, no end and an encode
\* that starts at a without a duration; no trim gives neither; the duration is
\* never negative.
C29_TrimRange ==
  \A i \in Tasks : Called(i, "encode") =>
    LET tr == opts.trim
        t == task[i]
    IN  /\ t.seek.duration # Undef => t.seek.duration.v >= 0
        /\ tr = << >> => t.trim = [start |-> Undef, end |-> Undef] /\ t.seek = NoSeek
        /\ IsNumber(tr) =>
             /\ t.trim = [start |-> Num(DigitsValue(tr)), end |-> Undef]
             /\ t.seek = [start |-> Num(DigitsValue(tr)), duration |-> Undef]
        /\ \A k \in Dashes(tr) :
             LET a == SubSeq(tr, 1, k - 1)
                 b == SubSeq(tr, k + 1, Len(tr))
                 d == DigitsValue(b) - DigitsValue(a)
             IN  (IsNumber(a) /\ IsNumber(b)) =>
                   /\ t.trim = [start |-> Num(DigitsValue(a)), end |-> Num(DigitsValue(b))]
                   /\ t.seek = [start |-> Num(DigitsValue(a)),
                                duration |-> Num(IF d > 0 THEN d ELSE 0)]

\* An encode ran with the trim '5-65': start 5, end 65, duration 60.
C29_Witness ==
  \E i \in Tasks :
    /\ Called(i, "encode")
    /\ opts.trim = <<"5", "-", "6", "5">>
    /\ task[i].trim = [start |-> Num(5), end |-> Num(65)]
    /\ task[i].seek = [start |-> Num(5), duration |-> Num(60)]

\* ------------------------------------------------------------------- C30
\* The tasks that have emitted a start event.
Started == { i \in Tasks : Starts(task[i].events) # {} }

\* The index a task's start event carries.
StartIndex(i) == task[i].events[CHOOSE k \in Starts(task[i].events) : TRUE].n

\* C30: start events are emitted in candidate-list order; each new one carries the
\* number of start events emitted before it, so the indices are pairwise distinct,
\* are exactly 0 .. k-1 in emission order and are smaller than the total, whatever
\* the concurrency limit and the interleaving are.
C30_StartOrder ==
  /\ \A i \in Started : Cardinality(Starts(task[i].events)) = 1
  /\ opts.callbacks => idxCounter = Cardinality(Started)
  /\ { StartIndex(i) : i \in Started } = 0..(Cardinality(Started) - 1)
  /\ \A i, j \in Started : i < j => StartIndex(i) < StartIndex(j)
  /\ \A i \in Started : StartIndex(i) < Len(candidates)
  /\ \A i \in Started : \A j \in Tasks : j < i => task[j].pc \notin {"none", "queued"}

\* Two tasks are in flight at once, and the second carries index 1.
C30_Witness ==
  /\ Cardinality(InFlight) >= 2
  /\ \E i, j \in Started \cap InFlight : i < j /\ StartIndex(i) = 0 /\ StartIndex(j) = 1

\* ------------------------------------------------------------------- C31
\* The artist and the title the claim states for a name of one of the three forms.
ClaimGuess(c) ==
  IF c.form = "by" THEN [artist |-> Str(Join(c.right)), title |-> Str(Join(c.left))]
  ELSE [artist |-> Str(Join(c.left)), title |-> Str(Join(c.right))]

\* C31: a base name 'A - T' with non-empty A and T, with or without bracketed
\* annotations, noise words and extra blanks, gives artist A and title T, cleaned;
\* 'Artist - Title', 'Title by Artist' and 'Artist _ Title' are tried in that order
\* and the first that gives two non-empty strings wins; otherwise nothing is
\* detected.
C31_FilenameDetection ==
  detect.state = "returned" =>
    /\ detect.form # "any" => detect.guess = ClaimGuess(detect)
    /\ detect.guess # NoGuess => Truthy(detect.guess.artist) /\ Truthy(detect.guess.title)
    /\ (\A n \in DOMAIN detect.base : detect.base[n] \notin {"-", "_"} /\ LowerWord(detect.base[n]) # "by")
         => detect.guess = NoGuess

\* The artist's name holds no hyphen.
NoInnerDash == \A n \in DOMAIN detect.left : detect.left[n] # "-"

\* The same statement for the names whose artist holds no hyphen.
C31_DetectionWithoutInnerDash == NoInnerDash => C31_FilenameDetection

\* 'Daft Punk - One More Time (Official Video)' gave 'Daft Punk' and 'One More Time'.
C31_Witness ==
  /\ detect.state = "returned"
  /\ Join(detect.base) = "Daft Punk - One More Time (Official Video)"
  /\ detect.guess = [artist |-> Str("Daft Punk"), title |-> Str("One More Time")]

\* ------------------------------------------------------------------- C32
\* C32: with retry.delayMs set, a finished task that made k encode attempts awaited
\* exactly k-1 retry delays: one between each two consecutive attempts and none
\* after the last attempt.
C32_DelayBetweenAttempts ==
  \A i \in Tasks :
    (opts.retryDelayMs > 0 /\ task[i].pc = "done" /\ task[i].made >= 1) =>
      task[i].delays = task[i].made - 1

\* A task whose last attempt succeeded awaited one delay for each failed attempt,
\* and a task whose attempts all failed awaited one delay for each attempt.
C32_DelayAfterEachFailure ==
  \A i \in Tasks :
    (opts.retryDelayMs > 0 /\ task[i].pc = "done") =>
      task[i].delays = Cardinality({ n \in DOMAIN task[i].attempts : task[i].attempts[n] # "ok" })

\* ------------------------------------------------------------------- C33
\* The controller of the run came from createController().
Created == opts.controller /\ ~opts.isPaused

\* One step taken after pause() and before resume() on a created controller: no
\* task at the pause gate passes it or calls the backend.
C33_PausedStep ==
  (Created /\ paused) => \A i \in Tasks : task[i].pc = "gate" => task'[i] = task[i]

\* C33: a controller obtained from createController() and passed as the controller
\* option gates the run: after pause() and until resume() no task passes the pause
\* gate or invokes a backend operation.
C33_CreatedControllerGates == [][C33_PausedStep]_vars

\* ------------------------------------------------------------------- C34
\* C34: with resume enabled, once a start-convert run has completed, the persisted
\* pending list holds none of the paths merged into the working input list of that
\* run, whether the task of the path succeeded, failed or was skipped, or the path
\* gave no candidate.
C34_PendingDrained ==
  gui.state = "returned" =>
    \A k \in DOMAIN gui.working : \A n \in DOMAIN queue.pending : queue.pending[n] # gui.working[k]

\* What is left in pending when the handler returns is what gave no done event: the
\* paths without a candidate and the paths whose task was skipped.
C34_PendingIsUnreported ==
  gui.state = "returned" =>
    \A n \in DOMAIN queue.pending :
      \/ queue.pending[n] \notin QueueCandidates(gui.working)
      \/ ~gui.overwrite /\ queue.pending[n] \in gui.outs

\* ------------------------------------------------------------------- C35
NoRepeat(list) == \A k, n \in DOMAIN list : list[k] = list[n] => k = n
Apart(l1, l2) == \A k \in DOMAIN l1 : \A n \in DOMAIN l2 : l1[k] # l2[n]

\* C35: after any sequence of start-convert runs with resume enabled the persisted
\* pending, done and fail lists are sets and pairwise disjoint: no path occurs twice
\* in one list and no path is in two of the lists at once.
C35_QueueListsDisjointSets ==
  gui.state \in {"idle", "returned"} =>
    /\ NoRepeat(queue.pending) /\ NoRepeat(queue.done) /\ NoRepeat(queue.fail)
    /\ Apart(queue.pending, queue.done) /\ Apart(queue.pending, queue.fail)
    /\ Apart(queue.done, queue.fail)

\* The pending list itself never holds a path twice.
C35_PendingIsSet == NoRepeat(queue.pending)

Encoders == {"toMp3", "toAac", "toFlac", "toOgg", "toOpus"}

\* C37: for every value of the format option, a task that is neither skipped nor a
\* dry run has invoked an encoder at least once when it reaches its terminal state;
\* no task is reported failed without an encode having been attempted.
C37_EncodeBeforeTerminal ==
  \A i \in Tasks :
    (task[i].pc \in {"done", "rejected"} /\ ~Skipped(i) /\ ~opts.dryRun) =>
      \E fn \in Encoders : Called(i, fn)

\* The same statement for the tasks that end with a result and whose output
\* extension selects the MP3 encoder.
C37_Mp3EncodeBeforeResult ==
  \A i \in Tasks :
    (task[i].pc = "done" /\ ~Skipped(i) /\ ~opts.dryRun /\ ConvertFn(opts) = "toMp3") =>
      Called(i, "toMp3")

\* ------------------------------------------------------------------- C38
\* C38: with autoMeta false, every field of the metadata passed to the encoder is
\* the user-supplied value of that field or is empty, whatever the probed
\* container tags, the file name and preferDetected are.
C38_AutoMetaOffKeepsUserValues ==
  \A i \in Tasks :
    (EncoderCalled(i) /\ ~opts.autoMeta) =>
      \A k \in MetaKeys :
        task[i].metadata[k] = opts.metadata[k] \/ ~Truthy(task[i].metadata[k])

\* With autoMeta false the file name gives nothing: a field is the user's value, a
\* probed container tag, or absent.
C38_AutoMetaOffDropsFilenameGuess ==
  \A i \in Tasks :
    (EncoderCalled(i) /\ ~opts.autoMeta) =>
      /\ task[i].metadata = Merged(opts, task[i].autoTags, NoGuess)
      /\ \A k \in MetaKeys :
           \/ task[i].metadata[k] = opts.metadata[k]
           \/ ~Truthy(task[i].metadata[k])
           \/ \E a \in TagKeys : task[i].metadata[k] = task[i].autoTags[a]

\* ------------------------------------------------------------------- C39
\* Neither a user cover nor an attached picture is at hand for the task.
NoCoverAtHand(i) == ~opts.userCover /\ task[i].cover # "attached"

\* C39: with autoCover.enabled false and neither a user cover nor an attached
\* picture, no frame is extracted for the task (extractFrame is not invoked, no
\* temporary cover file is made) and the encoder is given no cover.
C39_NoFrameWhenAutoCoverOff ==
  \A i \in Tasks :
    (~opts.autoCoverEnabled /\ NoCoverAtHand(i)) =>
      /\ ~Called(i, "extractFrame")
      /\ task[i].tempCover = "none" /\ "frame" \notin task[i].tmpFiles
      /\ \A n \in DOMAIN task[i].covers : task[i].covers[n] = "none"

\* A frame is extracted exactly for the tasks that got past the probe without a user
\* cover and without an attached picture, whatever autoCover.enabled is.
C39_FrameWheneverNoCover ==
  \A i \in Tasks :
    /\ Called(i, "extractFrame") => NoCoverAtHand(i)
    /\ (task[i].made >= 1 /\ NoCoverAtHand(i)) => Called(i, "extractFrame")

\* ------------------------------------------------------------------- C40
\* The extension of an output path as the tokens of a file name.
ExtTokens(ext) ==
  IF ext = ".mp3" THEN <<".", "mp3">>
  ELSE IF ext = ".m4a" THEN <<".", "m4a">>
  ELSE IF ext = ".flac" THEN <<".", "flac">>
  ELSE IF ext = ".wav" THEN <<".", "wav">>
  ELSE <<ext>>

\* An output path of convertPaths as the preview writes a path.
AsPreview(path) == [dir |-> path.dir, file |-> path.name \o ExtTokens(path.ext)]

\* C40: for every input, template, bitrate, VBR level and format, with keepStructure
\* off, the path preview-output returns for an input is the output path convertPaths
\* computes for it.
C40_PreviewEqualsOutput ==
  \A i \in Tasks :
    (preview # << >> /\ task[i].result.set /\ ~opts.keepStructure) =>
      preview[i] = AsPreview(task[i].result.output)

\* The same statement for the default template with the format unset or 'mp3'.
C40_PreviewOfDefaultMp3 ==
  (opts.template \in {<< >>, DefaultTemplate} /\ opts.format \in {"none", "mp3"})
    => C40_PreviewEqualsOutput

====
